---- MODULE Spec2Model ----
(***************************************************************************)
(* GATT battery server: attribute store, request dispatcher, response      *)
(* buffer ownership, connection state machine and periodic notifier.       *)
(* Sources: ble_gatt.cpp (src/unnamed/part_002), battery_service_task.cpp  *)
(* (src/unnamed/part_001), ble_context.cpp / ble_context.hpp.              *)
(***************************************************************************)
EXTENDS Integers, Sequences, FiniteSets, TLC

\* ------------------------------------------------------------------ bounds
MaxTicks == 1        \* notifier ticks handled with a peer and notifications on
MaxBufs == 1         \* heap blocks available to malloc
MaxWriteLen == 2     \* write values up to this length are enumerated in full
MaxOffset == 2       \* largest read offset
MaxReqLen == 2       \* largest len_requested of a read request
MaxMultiHandles == 3 \* longest handle list of a read-multiple request
MaxConnId == 1       \* connection ids handed out by the transport
MaxRspLen == 8       \* largest len_requested of a multi-attribute read
MaxSessions == 2     \* update engine contexts that can be live at once
MaxPending == 1      \* timer callbacks the notifier task has not taken yet

\* ------------------------------------------------- program constants
BATTERY_LEVEL_CHANGE == 2
BATTERY_LEVEL_FULL == 100
GATT_CLIENT_CONFIG_NOTIFICATION == 1
UINT8 == 256
UINT16 == 65536

\* Handles of the generated GATT database (cycfg_gatt_db.h); the numbers are
\* those of the database layout modelled by gatt_database below.
HDLC_BAS_BATTERY_LEVEL_VALUE == 3
HDLD_BAS_BATTERY_LEVEL_CLIENT_CHAR_CONFIG == 4
HDLC_OTA_FW_UPGRADE_SERVICE_OTA_UPGRADE_CONTROL_POINT_VALUE == 5
HDLD_OTA_FW_UPGRADE_SERVICE_OTA_UPGRADE_CONTROL_POINT_CLIENT_CHAR_CONFIG == 6
HDLC_OTA_FW_UPGRADE_SERVICE_OTA_UPGRADE_DATA_VALUE == 7
\* a handle the database does not contain
HDL_UNKNOWN == HDLC_OTA_FW_UPGRADE_SERVICE_OTA_UPGRADE_DATA_VALUE + 2

\* wiced_bt_gatt_status_e values used by the handlers
WICED_BT_GATT_SUCCESS == "WICED_BT_GATT_SUCCESS"
WICED_BT_GATT_INVALID_HANDLE == "WICED_BT_GATT_INVALID_HANDLE"
WICED_BT_GATT_INVALID_PDU == "WICED_BT_GATT_INVALID_PDU"
WICED_BT_GATT_INVALID_OFFSET == "WICED_BT_GATT_INVALID_OFFSET"
WICED_BT_GATT_INVALID_ATTR_LEN == "WICED_BT_GATT_INVALID_ATTR_LEN"
WICED_BT_GATT_ERR_UNLIKELY == "WICED_BT_GATT_ERR_UNLIKELY"
WICED_BT_GATT_INSUF_RESOURCE == "WICED_BT_GATT_INSUF_RESOURCE"
WICED_BT_GATT_ERROR == "WICED_BT_GATT_ERROR"
WICED_BT_GATT_NO_RESOURCES == "WICED_BT_GATT_NO_RESOURCES"

\* wiced_bt_gatt_opcode_e values routed by ble_gatt_event_handler
GATT_REQ_READ == "GATT_REQ_READ"
GATT_REQ_READ_BLOB == "GATT_REQ_READ_BLOB"
GATT_REQ_READ_BY_TYPE == "GATT_REQ_READ_BY_TYPE"
GATT_REQ_READ_MULTI == "GATT_REQ_READ_MULTI"
GATT_REQ_READ_MULTI_VAR_LENGTH == "GATT_REQ_READ_MULTI_VAR_LENGTH"
GATT_REQ_WRITE == "GATT_REQ_WRITE"
GATT_CMD_WRITE == "GATT_CMD_WRITE"
GATT_CMD_SIGNED_WRITE == "GATT_CMD_SIGNED_WRITE"
GATT_REQ_PREPARE_WRITE == "GATT_REQ_PREPARE_WRITE"
GATT_REQ_EXECUTE_WRITE == "GATT_REQ_EXECUTE_WRITE"

\* ble_context::state
disconnected_not_advertising == "disconnected_not_advertising"
disconnected_and_advertising == "disconnected_and_advertising"
connected == "connected"

WICED_BT_GATT_REQ_NOT_SUPPORTED == "WICED_BT_GATT_REQ_NOT_SUPPORTED"
GATT_HANDLE_VALUE_CONF == "GATT_HANDLE_VALUE_CONF"
GATT_REQ_MTU == "GATT_REQ_MTU"

\* first byte of a control point write (cy_ota_api.h)
CY_OTA_UPGRADE_COMMAND_PREPARE_DOWNLOAD == 1
CY_OTA_UPGRADE_COMMAND_DOWNLOAD == 2
CY_OTA_UPGRADE_COMMAND_VERIFY == 3
CY_OTA_UPGRADE_COMMAND_ABORT == 7

\* cy_ota_agent_state_t values the confirmation handler tells apart
CY_OTA_STATE_NOT_INITIALIZED == "CY_OTA_STATE_NOT_INITIALIZED"
CY_OTA_STATE_OTA_COMPLETE == "CY_OTA_STATE_OTA_COMPLETE"
CY_OTA_STATE_AGENT_WAITING == "CY_OTA_STATE_AGENT_WAITING"

BTM_BLE_ADVERT_OFF == "BTM_BLE_ADVERT_OFF"
BTM_BLE_ADVERT_UNDIRECTED_HIGH == "BTM_BLE_ADVERT_UNDIRECTED_HIGH"

\* ------------------------------------------------------------ value sets
Min(a, b) == IF a < b THEN a ELSE b

WriteBytes == {0, 1}
RECURSIVE SeqsUpTo(_, _)
SeqsUpTo(S, n) ==
    IF n = 0 THEN {<<>>}
    ELSE LET shorter == SeqsUpTo(S, n - 1)
         IN shorter \cup {Append(s, x) : s \in {t \in shorter : Len(t) = n - 1}, x \in S}

\* A byte source handed to a write: a null pointer, or a pointer to bytes.
NullSource == [null |-> TRUE, bytes |-> <<>>]
Source(bytes) == [null |-> FALSE, bytes |-> bytes]

ConnIds == 1..MaxConnId
BufIds == 1..MaxBufs
ReqHandles == {HDLC_BAS_BATTERY_LEVEL_VALUE,
               HDLD_BAS_BATTERY_LEVEL_CLIENT_CHAR_CONFIG,
               HDL_UNKNOWN}
OtaHandles == {HDLD_OTA_FW_UPGRADE_SERVICE_OTA_UPGRADE_CONTROL_POINT_CLIENT_CHAR_CONFIG,
               HDLC_OTA_FW_UPGRADE_SERVICE_OTA_UPGRADE_CONTROL_POINT_VALUE,
               HDLC_OTA_FW_UPGRADE_SERVICE_OTA_UPGRADE_DATA_VALUE}

\* --------------------------------------------------------- attribute store
\* gatt_database: the attribute types the stack's database holds, by handle.
\* Handles 1 and 2 (service and characteristic declarations) are in the
\* stack's database only; the others also have an entry in the lookup table.
gatt_database ==
    (1 :> "primary_service") @@ (2 :> "characteristic") @@
    (HDLC_BAS_BATTERY_LEVEL_VALUE :> "battery_level") @@
    (HDLD_BAS_BATTERY_LEVEL_CLIENT_CHAR_CONFIG :> "client_char_config") @@
    (HDLD_OTA_FW_UPGRADE_SERVICE_OTA_UPGRADE_CONTROL_POINT_CLIENT_CHAR_CONFIG
        :> "client_char_config")

\* app_gatt_db_ext_attr_tbl as provisioned at startup: one entry per
\* attribute value, {handle, max_len, cur_len, p_data}; has_data is
\* p_data != nullptr.
Entry(h, max, cur, data) ==
    [handle |-> h, max_len |-> max, cur_len |-> cur, has_data |-> TRUE,
     p_data |-> data]

app_gatt_db_ext_attr_tbl ==
    << Entry(HDLC_BAS_BATTERY_LEVEL_VALUE, 1, 1, <<BATTERY_LEVEL_FULL>>),
       Entry(HDLD_BAS_BATTERY_LEVEL_CLIENT_CHAR_CONFIG, 2, 2, <<0, 0>>),
       Entry(HDLD_OTA_FW_UPGRADE_SERVICE_OTA_UPGRADE_CONTROL_POINT_CLIENT_CHAR_CONFIG,
             2, 2, <<0, 0>>) >>

\* std::find_if over the table: index of the first entry with the handle,
\* 0 for nullptr.
RECURSIVE find_from(_, _, _)
find_from(t, i, handle) ==
    IF i > Len(t) THEN 0
    ELSE IF t[i].handle = handle THEN i
    ELSE find_from(t, i + 1, handle)

ble_gatt_db_find_by_handle(t, handle) == find_from(t, 1, handle)

\* memcpy of length bytes followed by the memset of the tail
copy_and_zero_tail_nofill(entry, value, length) ==
    [entry EXCEPT !.cur_len = length,
                  !.p_data = [k \in 1..entry.max_len |->
                                 IF k <= length THEN value.bytes[k]
                                 ELSE entry.p_data[k]]]

copy_and_zero_tail(entry, value, length) ==
    [entry EXCEPT !.cur_len = length,
                  !.p_data = [k \in 1..entry.max_len |->
                                 IF k <= length THEN value.bytes[k] ELSE 0]]

RECURSIVE set_value_from_stores_length(_, _, _, _, _)
set_value_from_stores_length(t, i, attr_handle, value, length) ==
    IF i > Len(t)
    THEN [status |-> WICED_BT_GATT_INVALID_HANDLE, tbl |-> t]
    ELSE IF t[i].handle # attr_handle
    THEN set_value_from_stores_length(t, i + 1, attr_handle, value, length)
    ELSE IF t[i].max_len < length
    THEN [status |-> WICED_BT_GATT_INVALID_ATTR_LEN,
          tbl |-> [t EXCEPT ![i].cur_len = t[i].max_len]]
    ELSE IF ~t[i].has_data
    THEN [status |-> WICED_BT_GATT_ERROR, tbl |-> t]
    ELSE [status |-> WICED_BT_GATT_SUCCESS,
          tbl |-> [t EXCEPT ![i] = copy_and_zero_tail(t[i], value, length)]]

RECURSIVE set_value_from_storage_first(_, _, _, _, _)
set_value_from_storage_first(t, i, attr_handle, value, length) ==
    IF i > Len(t)
    THEN [status |-> WICED_BT_GATT_INVALID_HANDLE, tbl |-> t]
    ELSE IF t[i].handle # attr_handle
    THEN set_value_from_storage_first(t, i + 1, attr_handle, value, length)
    ELSE IF ~t[i].has_data
    THEN [status |-> WICED_BT_GATT_ERROR, tbl |-> t]
    ELSE IF t[i].max_len < length
    THEN [status |-> WICED_BT_GATT_INVALID_ATTR_LEN, tbl |-> t]
    ELSE [status |-> WICED_BT_GATT_SUCCESS,
          tbl |-> [t EXCEPT ![i] = copy_and_zero_tail(t[i], value, length)]]

\* the for loop of ble_gatt_db_set_value, from index i on
RECURSIVE set_value_from(_, _, _, _, _)
set_value_from(t, i, attr_handle, value, length) ==
    IF i > Len(t)
    THEN [status |-> WICED_BT_GATT_INVALID_HANDLE, tbl |-> t]
    ELSE IF t[i].handle # attr_handle
    THEN set_value_from(t, i + 1, attr_handle, value, length)
    ELSE IF t[i].max_len < length
    THEN [status |-> WICED_BT_GATT_INVALID_ATTR_LEN, tbl |-> t]
    ELSE IF ~t[i].has_data
    THEN [status |-> WICED_BT_GATT_ERROR, tbl |-> t]
    ELSE [status |-> WICED_BT_GATT_SUCCESS,
          tbl |-> [t EXCEPT ![i] = copy_and_zero_tail(t[i], value, length)]]

ble_gatt_db_set_value_handle_first(t, attr_handle, value, length) ==
    IF ble_gatt_db_find_by_handle(t, attr_handle) # 0 /\ length > 0 /\ value.null
    THEN [status |-> WICED_BT_GATT_INVALID_PDU, tbl |-> t]
    ELSE set_value_from(t, 1, attr_handle, value, length)

ble_gatt_db_set_value(t, attr_handle, value, length) ==
    IF length > 0 /\ value.null
    THEN [status |-> WICED_BT_GATT_INVALID_PDU, tbl |-> t]
    ELSE set_value_from(t, 1, attr_handle, value, length)

\* ------------------------------------------------------ messages and heap
\* What a handler hands to the transport: kind of PDU, the handle, status or
\* length it carries, its payload, and the application buffer (0: static
\* attribute memory) with the release context passed along (ctxt is TRUE
\* when std::free was passed as p_app_ctxt).
Msg(kind, opcode, handle, status, len, data, buf, ctxt) ==
    [kind |-> kind, opcode |-> opcode, handle |-> handle, status |-> status,
     len |-> len, data |-> data, buf |-> buf, ctxt |-> ctxt]

\* the application buffers of the PDUs of sent, as the transport holds them
\* until it reports them transmitted
RECURSIVE HandedOver(_)
HandedOver(sent) ==
    IF sent = <<>> THEN {}
    ELSE (IF Head(sent).kind \in {"read_rsp", "read_by_type_rsp",
                                  "read_multi_rsp", "notification"}
          THEN {[buf |-> Head(sent).buf, ctxt |-> Head(sent).ctxt]}
          ELSE {}) \cup HandedOver(Tail(sent))

\* std::malloc: a block that is not allocated, or nullptr (0)
MallocResults(hp) ==
    LET free_blocks == {b \in DOMAIN hp : ~hp[b]}
    IN {0} \cup (IF free_blocks = {} THEN {}
                 ELSE {CHOOSE b \in free_blocks : \A c \in free_blocks : b <= c})

AfterMalloc(hp, b) == IF b = 0 THEN hp ELSE [hp EXCEPT ![b] = TRUE]

\* std::free applied to the blocks of frees, in order: the heap afterwards
\* and whether std::free was given memory that is not an allocated block
\* (block 0 stands for static attribute memory)
RECURSIVE AfterFrees(_, _, _)
AfterFrees(hp, frees, bad) ==
    IF frees = <<>> THEN [heap |-> hp, bad |-> bad]
    ELSE LET b == Head(frees)
         IN IF b = 0 THEN AfterFrees(hp, Tail(frees), TRUE)
            ELSE AfterFrees([hp EXCEPT ![b] = FALSE], Tail(frees),
                            bad \/ ~hp[b])

\* ------------------------------------------------------------ read handler
offset_out_of_range_strict(offset, cur_len) == offset > cur_len

offset_out_of_range(offset, cur_len) == offset >= cur_len

length_to_send_unclamped(length_requested, attr_length_to_copy, offset) ==
    attr_length_to_copy - offset

length_to_send(length_requested, attr_length_to_copy, offset) ==
    Min(length_requested, attr_length_to_copy - offset)

\* send_status is what wiced_bt_gatt_server_send_read_handle_rsp returns; the
\* response reaches the peer only when the transport accepted it.
ble_gatt_request_read_handler(t, opcode, handle, offset, length_requested, send_status) ==
    LET attribute == ble_gatt_db_find_by_handle(t, handle)
    IN IF attribute = 0
       THEN [status |-> WICED_BT_GATT_INVALID_HANDLE, error_handle |-> handle,
             out |-> <<>>, frees |-> <<>>]
       ELSE IF offset_out_of_range(offset, t[attribute].cur_len)
       THEN [status |-> WICED_BT_GATT_INVALID_OFFSET, error_handle |-> handle,
             out |-> <<>>, frees |-> <<>>]
       ELSE LET n == length_to_send(length_requested, t[attribute].cur_len,
                                    offset)
                data == [k \in 1..n |-> t[attribute].p_data[offset + k]]
            IN [status |-> send_status, error_handle |-> handle,
                out |-> IF send_status = WICED_BT_GATT_SUCCESS
                        THEN << Msg("read_rsp", opcode, handle,
                                    WICED_BT_GATT_SUCCESS, n, data, 0, FALSE) >>
                        ELSE <<>>,
                frees |-> <<>>]

\* ---------------------------------------------------- read-by-type handler
\* wiced_bt_gatt_find_handle_by_type: lowest handle in [s_handle, e_handle]
\* whose attribute has the type, 0 when there is none
wiced_bt_gatt_find_handle_by_type(s_handle, e_handle, uuid) ==
    LET matches == {h \in DOMAIN gatt_database :
                       s_handle <= h /\ h <= e_handle /\ gatt_database[h] = uuid}
    IN IF matches = {} THEN 0
       ELSE CHOOSE h \in matches : \A g \in matches : h <= g

\* wiced_bt_gatt_put_read_by_type_rsp_in_stream: a (handle, value) pair takes
\* attr_len + 2 bytes; all pairs of a response have the length of the first;
\* returns the bytes filled, 0 when the pair is not added.
wiced_bt_gatt_put_read_by_type_rsp_in_stream(stream_len, pair_length, attr_len) ==
    LET pair == attr_len + 2
    IN IF stream_len < pair \/ (pair_length # 0 /\ pair_length # pair)
       THEN [filled |-> 0, pair_length |-> pair_length]
       ELSE [filled |-> pair, pair_length |-> pair]

RECURSIVE read_by_type_loop_same_start(_, _, _, _, _, _)
read_by_type_loop_same_start(t, attr_handle, e_handle, uuid, length_requested, acc) ==
    LET found == wiced_bt_gatt_find_handle_by_type(attr_handle, e_handle, uuid)
    IN IF found = 0
       THEN [exit |-> "break", error_handle |-> attr_handle, acc |-> acc]
       ELSE LET attribute == ble_gatt_db_find_by_handle(t, found)
            IN IF attribute = 0
               THEN [exit |-> "lookup_failed", error_handle |-> attr_handle,
                     acc |-> acc]
               ELSE LET put == wiced_bt_gatt_put_read_by_type_rsp_in_stream(
                                   length_requested - acc.used, acc.pair_length,
                                   t[attribute].cur_len)
                    IN IF put.filled = 0
                       THEN [exit |-> "break", error_handle |-> attr_handle,
                             acc |-> acc]
                       ELSE read_by_type_loop_same_start(
                                t, found, e_handle, uuid, length_requested,
                                [data |-> Append(acc.data,
                                     <<found, SubSeq(t[attribute].p_data, 1,
                                                     t[attribute].cur_len)>>),
                                 used |-> acc.used + put.filled,
                                 pair_length |-> put.pair_length])

\* the while (true) loop; acc is {response contents, used, pair_length}
RECURSIVE read_by_type_loop(_, _, _, _, _, _)
read_by_type_loop(t, attr_handle, e_handle, uuid, length_requested, acc) ==
    LET found == wiced_bt_gatt_find_handle_by_type(attr_handle, e_handle, uuid)
    IN IF found = 0
       THEN [exit |-> "break", error_handle |-> attr_handle, acc |-> acc]
       ELSE LET attribute == ble_gatt_db_find_by_handle(t, found)
            IN IF attribute = 0
               THEN [exit |-> "lookup_failed", error_handle |-> attr_handle,
                     acc |-> acc]
               ELSE LET put == wiced_bt_gatt_put_read_by_type_rsp_in_stream(
                                   length_requested - acc.used, acc.pair_length,
                                   t[attribute].cur_len)
                    IN IF put.filled = 0
                       THEN [exit |-> "break", error_handle |-> attr_handle,
                             acc |-> acc]
                       ELSE read_by_type_loop(
                                t, (found + 1) % UINT16, e_handle, uuid,
                                length_requested,
                                [data |-> Append(acc.data,
                                     <<found, SubSeq(t[attribute].p_data, 1,
                                                     t[attribute].cur_len)>>),
                                 used |-> acc.used + put.filled,
                                 pair_length |-> put.pair_length])

\* what the handler does with the response buffer once the loop is over
read_by_type_finish_keep(opcode, response, r) ==
    IF r.exit = "lookup_failed"
    THEN [status |-> WICED_BT_GATT_INVALID_HANDLE,
          error_handle |-> r.error_handle, out |-> <<>>, frees |-> <<response>>]
    ELSE IF r.acc.used = 0
    THEN [status |-> WICED_BT_GATT_INVALID_HANDLE,
          error_handle |-> r.error_handle, out |-> <<>>, frees |-> <<>>]
    ELSE [status |-> WICED_BT_GATT_SUCCESS, error_handle |-> r.error_handle,
          out |-> << Msg("read_by_type_rsp", opcode, 0, WICED_BT_GATT_SUCCESS,
                         r.acc.used, r.acc.data, response, TRUE) >>,
          frees |-> <<>>]

read_by_type_finish(opcode, response, r) ==
    IF r.exit = "lookup_failed"
    THEN [status |-> WICED_BT_GATT_INVALID_HANDLE,
          error_handle |-> r.error_handle, out |-> <<>>, frees |-> <<response>>]
    ELSE IF r.acc.used = 0
    THEN [status |-> WICED_BT_GATT_INVALID_HANDLE,
          error_handle |-> r.error_handle, out |-> <<>>, frees |-> <<response>>]
    ELSE [status |-> WICED_BT_GATT_SUCCESS, error_handle |-> r.error_handle,
          out |-> << Msg("read_by_type_rsp", opcode, 0, WICED_BT_GATT_SUCCESS,
                         r.acc.used, r.acc.data, response, TRUE) >>,
          frees |-> <<>>]

\* response is the result of std::malloc(length_requested)
ble_gatt_request_read_by_type_handler(t, opcode, response, s_handle, e_handle, uuid, length_requested) ==
    IF response = 0
    THEN [status |-> WICED_BT_GATT_INSUF_RESOURCE, error_handle |-> 0,
          out |-> <<>>, frees |-> <<>>]
    ELSE read_by_type_finish(opcode, response,
             read_by_type_loop(t, s_handle, e_handle, uuid, length_requested,
                               [data |-> <<>>, used |-> 0, pair_length |-> 0]))

\* --------------------------------------------------- read-multiple handler
\* wiced_bt_gatt_put_read_multi_rsp_in_stream: the value, preceded by its
\* 2-byte length for the variable-length opcode; returns the bytes filled, 0
\* when the entry does not fit.
wiced_bt_gatt_put_read_multi_rsp_in_stream(opcode, stream_len, attr_len) ==
    LET need == IF opcode = GATT_REQ_READ_MULTI_VAR_LENGTH
                THEN attr_len + 2 ELSE attr_len
    IN IF need > stream_len THEN 0 ELSE need

\* the for loop over the handle stream, from position i on
RECURSIVE read_multi_loop(_, _, _, _, _, _, _)
read_multi_loop(t, opcode, handles, i, length_requested, error_handle, acc) ==
    IF i > Len(handles)
    THEN [exit |-> "done", error_handle |-> error_handle, acc |-> acc]
    ELSE LET attribute == ble_gatt_db_find_by_handle(t, handles[i])
         IN IF attribute = 0
            THEN [exit |-> "lookup_failed", error_handle |-> handles[i],
                  acc |-> acc]
            ELSE LET filled == wiced_bt_gatt_put_read_multi_rsp_in_stream(
                                   opcode, length_requested - acc.used,
                                   t[attribute].cur_len)
                 IN IF filled = 0
                    THEN [exit |-> "break", error_handle |-> handles[i],
                          acc |-> acc]
                    ELSE read_multi_loop(
                             t, opcode, handles, i + 1, length_requested,
                             handles[i],
                             [data |-> Append(acc.data,
                                  <<t[attribute].handle,
                                    SubSeq(t[attribute].p_data, 1,
                                           t[attribute].cur_len)>>),
                              used |-> acc.used + filled])

\* what the handler does with the response buffer once the loop is over
read_multi_finish(opcode, response, r) ==
    IF r.exit = "lookup_failed"
    THEN [status |-> WICED_BT_GATT_ERR_UNLIKELY,
          error_handle |-> r.error_handle, out |-> <<>>, frees |-> <<response>>]
    ELSE IF r.acc.used = 0
    THEN [status |-> WICED_BT_GATT_INVALID_HANDLE,
          error_handle |-> r.error_handle, out |-> <<>>, frees |-> <<>>]
    ELSE [status |-> WICED_BT_GATT_SUCCESS, error_handle |-> r.error_handle,
          out |-> << Msg("read_multi_rsp", opcode, 0, WICED_BT_GATT_SUCCESS,
                         r.acc.used, r.acc.data, response, TRUE) >>,
          frees |-> <<>>]

\* response is the result of std::malloc(length_requested); handle0 is what
\* wiced_bt_gatt_get_handle_from_stream(p_handle_stream, 0) yields
ble_gatt_request_read_multi_handler_no_null_check(t, opcode, response, handles, handle0, length_requested) ==
    read_multi_finish(opcode, response,
        read_multi_loop(t, opcode, handles, 1, length_requested, handle0,
                        [data |-> <<>>, used |-> 0]))

ble_gatt_request_read_multi_handler(t, opcode, response, handles, handle0, length_requested) ==
    IF response = 0
    THEN [status |-> WICED_BT_GATT_INVALID_HANDLE, error_handle |-> handle0,
          out |-> <<>>, frees |-> <<>>]
    ELSE read_multi_finish(opcode, response,
             read_multi_loop(t, opcode, handles, 1, length_requested, handle0,
                             [data |-> <<>>, used |-> 0]))

\* ------------------------------------------------------------ write handler
\* the case labels of the switch of ble_gatt_command_write_handler: the
\* handles passed on to ota_agent_write_handler
write_to_ota_no_descriptor(handle) ==
    handle \in OtaHandles
        \ {HDLD_OTA_FW_UPGRADE_SERVICE_OTA_UPGRADE_CONTROL_POINT_CLIENT_CHAR_CONFIG}

write_to_ota(handle) == handle \in OtaHandles

\* the default branch of ble_gatt_command_write_handler (every handle that is
\* not a firmware-update handle)
ble_gatt_command_write_handler(t, handle, p_val, val_len) ==
    LET r == ble_gatt_db_set_value(t, handle, p_val, val_len)
    IN [status |-> r.status, error_handle |-> handle, tbl |-> r.tbl]

\* ------------------------------------------------------ dispatcher boundary
write_rsp_any_opcode(opcode, handle, status) ==
    IF status = WICED_BT_GATT_SUCCESS
    THEN << Msg("write_rsp", opcode, handle, WICED_BT_GATT_SUCCESS, 0, <<>>,
                0, FALSE) >>
    ELSE <<>>

\* the write opcodes of ble_gatt_event_handler: what is sent once
\* ble_gatt_command_write_handler returned status
write_rsp(opcode, handle, status) ==
    IF opcode = GATT_REQ_WRITE /\ status = WICED_BT_GATT_SUCCESS
    THEN << Msg("write_rsp", opcode, handle, WICED_BT_GATT_SUCCESS, 0, <<>>,
                0, FALSE) >>
    ELSE <<>>

with_error_rsp_zero_handle(opcode, status, error_handle, sent) ==
    IF status # WICED_BT_GATT_SUCCESS
    THEN Append(sent, Msg("error_rsp", opcode, 0, status, 0, <<>>, 0, FALSE))
    ELSE sent

\* GATT_ATTRIBUTE_REQUEST_EVT of ble_gatt_event_callback: a status other
\* than success is answered with an error response
with_error_rsp(opcode, status, error_handle, sent) ==
    IF status # WICED_BT_GATT_SUCCESS
    THEN Append(sent, Msg("error_rsp", opcode, error_handle, status, 0, <<>>,
                          0, FALSE))
    ELSE sent

\* ------------------------------------------------------- connection context
\* a call to the transport, the LED driver or the update engine, and whether
\* it succeeded
Call(fn, ok) == [fn |-> fn, ok |-> ok]

\* a call to the update engine that is given m_ota_config_descriptor
CallWithDescriptor(fn, ok, descriptor) ==
    [fn |-> fn, ok |-> ok, descriptor |-> descriptor]

\* the three driver calls of update_advertising_led; their results are
\* discarded
led_calls(ok) ==
    << Call("led_stop", ok), Call("led_set_blink_rate", ok),
       Call("led_start", ok) >>

\* the members of a value-initialized ble_context after
\* default_value_initialize (0 stands for nullptr)
ble_context_object ==
    [m_tag |-> "BLE_CONTEXT_TAG_VALID", m_ota_context |-> 0,
     m_reboot_at_end |-> FALSE, m_ota_config_descriptor |-> 0]

update_advertising_led_connected_blinks(state) ==
    CASE state = disconnected_not_advertising -> "off"
      [] state = disconnected_and_advertising -> "blinking"
      [] state = connected -> "blinking"
      [] OTHER -> "off"

\* the duty cycle update_advertising_led selects for a state
update_advertising_led(state) ==
    CASE state = disconnected_not_advertising -> "off"
      [] state = disconnected_and_advertising -> "blinking"
      [] state = connected -> "on"
      [] OTHER -> "off"

set_advertising_mode_ignore_id(advertisement_mode, connection_id) ==
    IF advertisement_mode = BTM_BLE_ADVERT_OFF
    THEN disconnected_not_advertising
    ELSE disconnected_and_advertising

set_advertising_mode_keep_connected(advertisement_mode, connection_id) ==
    IF connection_id # 0 THEN connected
    ELSE IF advertisement_mode = BTM_BLE_ADVERT_OFF
    THEN disconnected_not_advertising
    ELSE disconnected_and_advertising

\* ble_context::set_advertising_mode
set_advertising_mode(advertisement_mode, connection_id) ==
    IF advertisement_mode = BTM_BLE_ADVERT_OFF
    THEN (IF connection_id = 0 THEN disconnected_not_advertising ELSE connected)
    ELSE disconnected_and_advertising

\* ble_context::connection_event_handler: the connection id, the state, the
\* number of wiced_bt_start_advertisements calls and whether the program
\* stopped in CY_ASSERT. adv_ok: the transport accepted the advertising
\* request; assert_halts: CY_ASSERT(false) stops the program (it is empty in
\* a build with NDEBUG).
connection_event_handler_keep_id(is_connected, conn_id, cur_id, cur_state, adv_ok, assert_halts) ==
    IF is_connected
    THEN [connection_id |-> conn_id, state |-> connected, adv |-> 0,
          halted |-> FALSE]
    ELSE IF ~adv_ok /\ assert_halts
    THEN [connection_id |-> cur_id, state |-> cur_state, adv |-> 1,
          halted |-> TRUE]
    ELSE [connection_id |-> cur_id, state |-> disconnected_and_advertising,
          adv |-> 1, halted |-> FALSE]

connection_event_handler(is_connected, conn_id, cur_id, cur_state, adv_ok, assert_halts) ==
    IF is_connected
    THEN [connection_id |-> conn_id, state |-> connected, adv |-> 0,
          halted |-> FALSE]
    ELSE IF ~adv_ok /\ assert_halts
    THEN [connection_id |-> 0, state |-> cur_state, adv |-> 1,
          halted |-> TRUE]
    ELSE [connection_id |-> 0, state |-> disconnected_and_advertising,
          adv |-> 1, halted |-> FALSE]

\* ------------------------------------------------- firmware update session
\* ble_context::ota_value_initialize: the members it assigns
ota_value_initialize(o) ==
    [o EXCEPT !.m_ota_context = 0, !.m_reboot_at_end = TRUE,
              !.m_ota_config_descriptor = 0]

ota_agent_initialize_no_tag_check(o, n_engines, start_ok) ==
    IF start_ok
    THEN [result |-> "CY_RSLT_SUCCESS",
          ota |-> [ota_value_initialize(o) EXCEPT !.m_ota_context = 1],
          engines |-> n_engines + 1, sys |-> "running",
          calls |-> << Call("cy_ota_agent_start", TRUE) >>]
    ELSE [result |-> "CY_RSLT_TYPE_ERROR", ota |-> ota_value_initialize(o),
          engines |-> n_engines, sys |-> "hung",
          calls |-> << Call("cy_ota_agent_start", FALSE) >>]

\* ble_context::ota_agent_initialize. start_ok: cy_ota_agent_start succeeded
\* (it then stores a context in m_ota_context); when it fails the function
\* stays in its endless loop.
ota_agent_initialize(o, n_engines, start_ok) ==
    IF o.m_tag # "BLE_CONTEXT_TAG_VALID"
    THEN [result |-> "CY_RSLT_OTA_ERROR_BADARG", ota |-> o,
          engines |-> n_engines, sys |-> "running", calls |-> <<>>]
    ELSE IF start_ok
    THEN [result |-> "CY_RSLT_SUCCESS",
          ota |-> [ota_value_initialize(o) EXCEPT !.m_ota_context = 1],
          engines |-> n_engines + 1, sys |-> "running",
          calls |-> << Call("cy_ota_agent_start", TRUE) >>]
    ELSE [result |-> "CY_RSLT_TYPE_ERROR", ota |-> ota_value_initialize(o),
          engines |-> n_engines, sys |-> "hung",
          calls |-> << Call("cy_ota_agent_start", FALSE) >>]

\* what the handler returns for the result of one engine call
engine_status(ok) ==
    IF ok THEN WICED_BT_GATT_SUCCESS ELSE WICED_BT_GATT_ERROR

ota_control_point_abort_result(o, n_engines, command, ok1, ok2) ==
    CASE command = CY_OTA_UPGRADE_COMMAND_PREPARE_DOWNLOAD ->
           LET init == ota_agent_initialize(o, n_engines, ok1)
           IN IF init.result # "CY_RSLT_SUCCESS"
              THEN [status |-> WICED_BT_GATT_ERROR, ota |-> init.ota,
                    engines |-> init.engines, sys |-> init.sys,
                    calls |-> init.calls]
              ELSE [status |-> engine_status(ok2), ota |-> init.ota,
                    engines |-> init.engines, sys |-> "running",
                    calls |-> Append(init.calls,
                                 CallWithDescriptor(
                                     "cy_ota_ble_download_prepare", ok2,
                                     init.ota.m_ota_config_descriptor))]
      [] command = CY_OTA_UPGRADE_COMMAND_DOWNLOAD ->
           [status |-> engine_status(ok1), ota |-> o, engines |-> n_engines,
            sys |-> "running",
            calls |-> << CallWithDescriptor(
                             "cy_ota_ble_download", ok1,
                             o.m_ota_config_descriptor) >>]
      [] command = CY_OTA_UPGRADE_COMMAND_VERIFY ->
           [status |-> engine_status(ok1), ota |-> o, engines |-> n_engines,
            sys |-> "running",
            calls |-> << Call("cy_ota_ble_download_verify", ok1) >>]
      [] command = CY_OTA_UPGRADE_COMMAND_ABORT ->
           [status |-> engine_status(ok1), ota |-> o,
            engines |-> n_engines, sys |-> "running",
            calls |-> << Call("cy_ota_ble_download_abort", ok1) >>]
      [] OTHER ->
           [status |-> WICED_BT_GATT_REQ_NOT_SUPPORTED, ota |-> o,
            engines |-> n_engines, sys |-> "running", calls |-> <<>>]

\* the control point branch of ota_agent_write_handler; command is p_val[0],
\* ok1 and ok2 the results of the engine calls made
ota_control_point(o, n_engines, command, ok1, ok2) ==
    CASE command = CY_OTA_UPGRADE_COMMAND_PREPARE_DOWNLOAD ->
           LET init == ota_agent_initialize(o, n_engines, ok1)
           IN IF init.result # "CY_RSLT_SUCCESS"
              THEN [status |-> WICED_BT_GATT_ERROR, ota |-> init.ota,
                    engines |-> init.engines, sys |-> init.sys,
                    calls |-> init.calls]
              ELSE [status |-> engine_status(ok2), ota |-> init.ota,
                    engines |-> init.engines, sys |-> "running",
                    calls |-> Append(init.calls,
                                 CallWithDescriptor(
                                     "cy_ota_ble_download_prepare", ok2,
                                     init.ota.m_ota_config_descriptor))]
      [] command = CY_OTA_UPGRADE_COMMAND_DOWNLOAD ->
           [status |-> engine_status(ok1), ota |-> o, engines |-> n_engines,
            sys |-> "running",
            calls |-> << CallWithDescriptor(
                             "cy_ota_ble_download", ok1,
                             o.m_ota_config_descriptor) >>]
      [] command = CY_OTA_UPGRADE_COMMAND_VERIFY ->
           [status |-> engine_status(ok1), ota |-> o, engines |-> n_engines,
            sys |-> "running",
            calls |-> << Call("cy_ota_ble_download_verify", ok1) >>]
      [] command = CY_OTA_UPGRADE_COMMAND_ABORT ->
           [status |-> WICED_BT_GATT_SUCCESS, ota |-> o,
            engines |-> n_engines, sys |-> "running",
            calls |-> << Call("cy_ota_ble_download_abort", ok1) >>]
      [] OTHER ->
           [status |-> WICED_BT_GATT_REQ_NOT_SUPPORTED, ota |-> o,
            engines |-> n_engines, sys |-> "running", calls |-> <<>>]

\* ble_context::ota_agent_write_handler; byte0 is write_request->p_val[0]
ota_agent_write_handler(o, n_engines, handle, byte0, ok1, ok2) ==
    CASE handle = HDLD_OTA_FW_UPGRADE_SERVICE_OTA_UPGRADE_CONTROL_POINT_CLIENT_CHAR_CONFIG ->
           [status |-> WICED_BT_GATT_SUCCESS,
            ota |-> [o EXCEPT !.m_ota_config_descriptor = byte0],
            engines |-> n_engines, sys |-> "running", calls |-> <<>>]
      [] handle = HDLC_OTA_FW_UPGRADE_SERVICE_OTA_UPGRADE_CONTROL_POINT_VALUE ->
           ota_control_point(o, n_engines, byte0, ok1, ok2)
      [] handle = HDLC_OTA_FW_UPGRADE_SERVICE_OTA_UPGRADE_DATA_VALUE ->
           [status |-> engine_status(ok1), ota |-> o, engines |-> n_engines,
            sys |-> "running",
            calls |-> << Call("cy_ota_ble_download_write", ok1) >>]
      [] OTHER ->
           [status |-> WICED_BT_GATT_REQ_NOT_SUPPORTED, ota |-> o,
            engines |-> n_engines, sys |-> "running", calls |-> <<>>]

\* ble_context::ota_agent_confirmation_handler. lib_state is the state of a
\* started engine; cy_ota_get_state leaves ota_lib_state alone for a null
\* context, and cy_ota_agent_stop clears the context it stops.
ota_reset_condition_flag_only(o, ota_lib_state) ==
    o.m_reboot_at_end

ota_reset_condition(o, ota_lib_state) ==
    ota_lib_state = CY_OTA_STATE_OTA_COMPLETE /\ o.m_reboot_at_end

ota_agent_confirmation_handler(o, n_engines, lib_state) ==
    LET ota_lib_state == IF o.m_ota_context = 0
                         THEN CY_OTA_STATE_NOT_INITIALIZED ELSE lib_state
        got == Call("cy_ota_get_state", o.m_ota_context # 0)
    IN IF ota_reset_condition(o, ota_lib_state)
       THEN [ota |-> o, engines |-> n_engines, sys |-> "reset",
             calls |-> << got, Call("NVIC_SystemReset", TRUE) >>]
       ELSE [ota |-> [o EXCEPT !.m_ota_context = 0],
             engines |-> IF o.m_ota_context = 0 THEN n_engines
                         ELSE n_engines - 1,
             sys |-> "running",
             calls |-> << got, Call("cy_ota_agent_stop",
                                    o.m_ota_context # 0) >>]

\* ---------------------------------------------------------------- notifier
\* app_bas_battery_level_client_char_config[0] & GATT_CLIENT_CONFIG_NOTIFICATION
notifications_enabled_any_bit(config0) == config0 # 0

notifications_enabled(config0) ==
    (config0 % 2) = GATT_CLIENT_CONFIG_NOTIFICATION

\* the notification of one pass: the battery level handle with the first
\* byte of app_bas_battery_level (app_bas_battery_level_len is 1)
battery_notification(level) ==
    Msg("notification", "GATT_HANDLE_VALUE_NOTIF",
        HDLC_BAS_BATTERY_LEVEL_VALUE, WICED_BT_GATT_SUCCESS, 1, <<level>>, 0,
        FALSE)

battery_service_update_percentage(level, decrease_interval) ==
    IF level = 0 THEN BATTERY_LEVEL_FULL
    ELSE (level - decrease_interval) % UINT8

\* ------------------------------------------------------------------- state
VARIABLES
    tbl,                \* app_gatt_db_ext_attr_tbl
    m_connection_id,    \* ble_context::m_connection_id
    m_connection_state, \* ble_context::m_connection_state
    led,                \* duty cycle last set on the advertising LED
    halted,             \* stopped in CY_ASSERT
    heap,               \* std::malloc blocks: TRUE while allocated
    inflight,           \* buffers the transport holds until transmitted
    double_free,        \* std::free was called on a block not allocated
    nticks,             \* notifier updates performed
    last,               \* the event handled last and what its handler returned
    out,                \* the PDUs the last event handed to the transport
    ota,                \* ble_context: m_tag, m_ota_context, m_reboot_at_end,
                        \* m_ota_config_descriptor
    engines,            \* update engine contexts started and not stopped
    sys,                \* "running", "hung" (endless loop) or "reset"
    calls,              \* LED and update engine calls of the last event
    task_pc,            \* where battery_service_task is in its loop
    notify              \* notification value of battery_service_task

vars == <<tbl, m_connection_id, m_connection_state, led, halted, heap,
          inflight, double_free, nticks, last, out, ota, engines, sys, calls,
          task_pc, notify>>

connVars == <<m_connection_id, m_connection_state, led, halted>>
heapVars == <<heap, inflight, double_free>>
otaVars == <<ota, engines, sys>>
taskVars == <<task_pc, notify>>

\* the program is processing events: it did not stop in an assertion, did
\* not enter the endless loop of ota_agent_initialize and was not reset
Running == ~halted /\ sys = "running"

Last(op, opcode, handle, status, buf, adv) ==
    [op |-> op, opcode |-> opcode, handle |-> handle, status |-> status,
     buf |-> buf, adv |-> adv]

\* ble_context::default_value_initialize, the provisioned table, an empty heap
Init ==
    /\ tbl = app_gatt_db_ext_attr_tbl
    /\ m_connection_id = 0
    /\ m_connection_state = disconnected_not_advertising
    /\ led = "off"
    /\ halted = FALSE
    /\ heap = [b \in BufIds |-> FALSE]
    /\ inflight = {}
    /\ double_free = FALSE
    /\ nticks = 0
    /\ last = Last("init", "none", 0, WICED_BT_GATT_SUCCESS, 0, 0)
    /\ out = <<>>
    /\ ota = ble_context_object
    /\ engines = 0
    /\ sys = "running"
    /\ calls = <<>>
    /\ task_pc = "take"
    /\ notify = 0

\* ------------------------------------------------ connection event handler
\* GATT_CONNECTION_STATUS_EVT; update_advertising_led runs unless the
\* program stopped in the assertion
ConnectionEvent(op, peer_id, transport_calls, led_ok, r) ==
    /\ Running
    /\ m_connection_id' = r.connection_id
    /\ m_connection_state' = r.state
    /\ halted' = r.halted
    /\ led' = IF r.halted THEN led ELSE update_advertising_led(r.state)
    /\ last' = Last(op, "none", peer_id,
                    IF r.halted THEN WICED_BT_GATT_ERROR
                    ELSE WICED_BT_GATT_SUCCESS, 0, r.adv)
    /\ out' = <<>>
    /\ calls' = transport_calls
                    \o (IF r.halted THEN <<>> ELSE led_calls(led_ok))
    /\ UNCHANGED <<tbl, heap, inflight, double_free, nticks>>
    /\ UNCHANGED otaVars /\ UNCHANGED taskVars

Connect(conn_id, led_ok) ==
    ConnectionEvent("connect", conn_id, <<>>, led_ok,
        connection_event_handler(TRUE, conn_id, m_connection_id,
                                 m_connection_state, TRUE, FALSE))

Disconnect(adv_ok, assert_halts, led_ok) ==
    ConnectionEvent("disconnect", 0,
        << Call("wiced_bt_start_advertisements", adv_ok) >>, led_ok,
        connection_event_handler(FALSE, 0, m_connection_id,
                                 m_connection_state, adv_ok, assert_halts))

\* BTM_BLE_ADVERT_STATE_CHANGED_EVT of stack_management_callback
AdvertStateChanged(mode, led_ok) ==
    /\ Running
    /\ m_connection_state' = set_advertising_mode(mode, m_connection_id)
    /\ led' = update_advertising_led(m_connection_state')
    /\ last' = Last("advert_state_changed", mode, 0, WICED_BT_GATT_SUCCESS, 0, 0)
    /\ out' = <<>>
    /\ calls' = led_calls(led_ok)
    /\ UNCHANGED <<tbl, m_connection_id, halted, heap, inflight, double_free,
                   nticks>>
    /\ UNCHANGED otaVars /\ UNCHANGED taskVars

\* ------------------------------------------------------- attribute requests
\* The effect of a GATT_ATTRIBUTE_REQUEST_EVT whose handler returned r:
\* blocks freed by the handler, PDUs handed to the transport, the error
\* response of the dispatcher boundary.
Deliver(op, opcode, handle, response, hp, r) ==
    LET sent == with_error_rsp(opcode, r.status, r.error_handle, r.out)
        freed == AfterFrees(hp, r.frees, double_free)
    IN /\ out' = sent
       /\ heap' = freed.heap
       /\ double_free' = freed.bad
       /\ inflight' = inflight \cup HandedOver(r.out)
       /\ last' = Last(op, opcode, handle, r.status, response, 0)

\* GATT_REQ_READ / GATT_REQ_READ_BLOB
ReadReq(opcode, handle, offset, length_requested, send_status) ==
    /\ Running /\ m_connection_id # 0
    /\ Deliver("read", opcode, handle, 0, heap,
               ble_gatt_request_read_handler(tbl, opcode, handle, offset,
                                             length_requested, send_status))
    /\ UNCHANGED <<tbl, nticks>> /\ UNCHANGED connVars /\ UNCHANGED taskVars
    /\ UNCHANGED otaVars /\ calls' = <<>>

\* GATT_REQ_READ_BY_TYPE
ReadByTypeReq(s_handle, e_handle, uuid, length_requested, response) ==
    /\ Running /\ m_connection_id # 0
    /\ response \in MallocResults(heap)
    /\ Deliver("read_by_type", GATT_REQ_READ_BY_TYPE, s_handle, response,
               AfterMalloc(heap, response),
               ble_gatt_request_read_by_type_handler(
                   tbl, GATT_REQ_READ_BY_TYPE, response, s_handle, e_handle,
                   uuid, length_requested))
    /\ UNCHANGED <<tbl, nticks>> /\ UNCHANGED connVars /\ UNCHANGED taskVars
    /\ UNCHANGED otaVars /\ calls' = <<>>

\* GATT_REQ_READ_MULTI / GATT_REQ_READ_MULTI_VAR_LENGTH. With an empty handle
\* list the handle read from position 0 of the stream is whatever the stream
\* memory holds.
ReadMultiReq(opcode, handles, stream0, length_requested, response) ==
    /\ Running /\ m_connection_id # 0
    /\ response \in MallocResults(heap)
    /\ LET handle0 == IF handles # <<>> THEN handles[1] ELSE stream0
       IN Deliver("read_multi", opcode, handle0, response,
                  AfterMalloc(heap, response),
                  ble_gatt_request_read_multi_handler(
                      tbl, opcode, response, handles, handle0,
                      length_requested))
    /\ UNCHANGED <<tbl, nticks>> /\ UNCHANGED connVars /\ UNCHANGED taskVars
    /\ UNCHANGED otaVars /\ calls' = <<>>

\* GATT_REQ_WRITE / GATT_CMD_WRITE / GATT_CMD_SIGNED_WRITE to a handle that
\* is not a firmware-update handle
WriteReq(opcode, handle, p_val, val_len) ==
    /\ Running /\ m_connection_id # 0
    /\ ~write_to_ota(handle)
    /\ LET r == ble_gatt_command_write_handler(tbl, handle, p_val, val_len)
           rsp == write_rsp(opcode, handle, r.status)
       IN /\ tbl' = r.tbl
          /\ Deliver("write", opcode, handle, 0, heap,
                     [status |-> r.status, error_handle |-> r.error_handle,
                      out |-> rsp, frees |-> <<>>])
    /\ UNCHANGED nticks /\ UNCHANGED connVars /\ UNCHANGED taskVars
    /\ UNCHANGED otaVars /\ calls' = <<>>

PrepareWriteReq_stores(handle) ==
    /\ Running /\ m_connection_id # 0
    /\ Deliver("prepare_write", GATT_REQ_PREPARE_WRITE, handle, 0, heap,
               [status |-> WICED_BT_GATT_SUCCESS, error_handle |-> 0,
                out |-> <<>>, frees |-> <<>>])
    /\ tbl' = ble_gatt_db_set_value(tbl, handle, Source(<<1>>), 1).tbl
    /\ UNCHANGED nticks /\ UNCHANGED connVars /\ UNCHANGED taskVars
    /\ UNCHANGED otaVars /\ calls' = <<>>

\* GATT_REQ_PREPARE_WRITE
PrepareWriteReq(handle) ==
    /\ Running /\ m_connection_id # 0
    /\ Deliver("prepare_write", GATT_REQ_PREPARE_WRITE, handle, 0, heap,
               [status |-> WICED_BT_GATT_SUCCESS, error_handle |-> 0,
                out |-> <<>>, frees |-> <<>>])
    /\ UNCHANGED <<tbl, nticks>> /\ UNCHANGED connVars /\ UNCHANGED taskVars
    /\ UNCHANGED otaVars /\ calls' = <<>>

\* GATT_REQ_EXECUTE_WRITE
ExecuteWriteReq ==
    /\ Running /\ m_connection_id # 0
    /\ Deliver("execute_write", GATT_REQ_EXECUTE_WRITE, 0, 0, heap,
               [status |-> WICED_BT_GATT_SUCCESS, error_handle |-> 0,
                out |-> << Msg("execute_write_rsp", GATT_REQ_EXECUTE_WRITE, 0,
                               WICED_BT_GATT_SUCCESS, 0, <<>>, 0, FALSE) >>,
                frees |-> <<>>])
    /\ UNCHANGED <<tbl, nticks>> /\ UNCHANGED connVars /\ UNCHANGED taskVars
    /\ UNCHANGED otaVars /\ calls' = <<>>

\* ------------------------------------------------------------ buffer events
\* GATT_GET_RESPONSE_BUFFER_EVT: the stack takes the malloc'ed buffer with
\* std::free as its context
GetResponseBuffer(response) ==
    /\ Running
    /\ response \in MallocResults(heap)
    /\ heap' = AfterMalloc(heap, response)
    /\ inflight' = IF response = 0 THEN inflight
                   ELSE inflight \cup {[buf |-> response, ctxt |-> TRUE]}
    /\ last' = Last("get_response_buffer", "none", 0, WICED_BT_GATT_SUCCESS,
                    response, 0)
    /\ out' = <<>>
    /\ UNCHANGED <<tbl, double_free, nticks>> /\ UNCHANGED connVars /\ UNCHANGED taskVars
    /\ UNCHANGED otaVars /\ calls' = <<>>

\* what GATT_APP_BUFFER_TRANSMITTED_EVT passes to std::free
buffer_transmitted_frees_always(x) == <<x.buf>>

buffer_transmitted_frees(x) == IF x.ctxt THEN <<x.buf>> ELSE <<>>

\* GATT_APP_BUFFER_TRANSMITTED_EVT for a buffer the transport holds
BufferTransmitted(x) ==
    /\ Running
    /\ x \in inflight
    /\ LET freed == AfterFrees(heap, buffer_transmitted_frees(x), double_free)
       IN /\ heap' = freed.heap
          /\ double_free' = freed.bad
    /\ inflight' = inflight \ {x}
    /\ last' = Last("buffer_transmitted", "none", 0, WICED_BT_GATT_SUCCESS,
                    x.buf, 0)
    /\ out' = <<>>
    /\ UNCHANGED <<tbl, nticks>> /\ UNCHANGED connVars /\ UNCHANGED taskVars
    /\ UNCHANGED otaVars /\ calls' = <<>>

\* ---------------------------------------------------------------- notifier
\* One pass of the loop of battery_service_task after the timer callback
\* gave the task notification.
NotifierTick ==
    /\ Running
    /\ LET bas == ble_gatt_db_find_by_handle(app_gatt_db_ext_attr_tbl,
                                             HDLC_BAS_BATTERY_LEVEL_VALUE)
           cccd == ble_gatt_db_find_by_handle(
                       app_gatt_db_ext_attr_tbl,
                       HDLD_BAS_BATTERY_LEVEL_CLIENT_CHAR_CONFIG)
       IN IF m_connection_id = 0
             \/ ~notifications_enabled(tbl[cccd].p_data[1])
          THEN /\ last' = Last("tick", "none", 0, "skipped", 0, 0)
               /\ out' = <<>>
               /\ UNCHANGED <<tbl, nticks, inflight>>
          ELSE /\ nticks < MaxTicks
               /\ tbl' = [tbl EXCEPT ![bas].p_data[1] =
                             battery_service_update_percentage(
                                 tbl[bas].p_data[1], BATTERY_LEVEL_CHANGE)]
               /\ nticks' = nticks + 1
               /\ out' = << battery_notification(tbl'[bas].p_data[1]) >>
               /\ inflight' = inflight \cup HandedOver(out')
               /\ last' = Last("tick", "none", HDLC_BAS_BATTERY_LEVEL_VALUE,
                               WICED_BT_GATT_SUCCESS, 0, 0)
    /\ UNCHANGED <<heap, double_free>> /\ UNCHANGED connVars /\ UNCHANGED taskVars
    /\ UNCHANGED otaVars /\ calls' = <<>>

\* The loop of battery_service_task one statement at a time; the task is a
\* FreeRTOS task of its own, so the events of the stack are handled between
\* any two of its statements.
BasIndex ==
    ble_gatt_db_find_by_handle(app_gatt_db_ext_attr_tbl,
                               HDLC_BAS_BATTERY_LEVEL_VALUE)
BasConfigIndex ==
    ble_gatt_db_find_by_handle(app_gatt_db_ext_attr_tbl,
                               HDLD_BAS_BATTERY_LEVEL_CLIENT_CHAR_CONFIG)

\* what a statement of the task leaves alone
TaskFrame ==
    /\ UNCHANGED <<heap, double_free>> /\ UNCHANGED connVars
    /\ UNCHANGED otaVars /\ calls' = <<>>

TimerCallback_updates ==
    /\ Running
    /\ notify < MaxPending
    /\ notify' = notify + 1
    /\ tbl' = [tbl EXCEPT ![BasIndex].p_data[1] =
                  battery_service_update_percentage(
                      tbl[BasIndex].p_data[1], BATTERY_LEVEL_CHANGE)]
    /\ last' = Last("timer", "none", 0, WICED_BT_GATT_SUCCESS, 0, 0)
    /\ out' = <<>>
    /\ UNCHANGED <<task_pc, nticks, inflight>>
    /\ TaskFrame

\* battery_service_timer_callback: vTaskNotifyGiveFromISR
TimerCallback ==
    /\ Running
    /\ notify < MaxPending
    /\ notify' = notify + 1
    /\ last' = Last("timer", "none", 0, WICED_BT_GATT_SUCCESS, 0, 0)
    /\ out' = <<>>
    /\ UNCHANGED <<tbl, task_pc, nticks, inflight>>
    /\ TaskFrame

\* ulTaskNotifyTake(pdTRUE, portMAX_DELAY)
TaskTake ==
    /\ Running
    /\ task_pc = "take" /\ notify > 0
    /\ notify' = 0
    /\ task_pc' = "check_connection"
    /\ last' = Last("take", "none", 0, WICED_BT_GATT_SUCCESS, 0, 0)
    /\ out' = <<>>
    /\ UNCHANGED <<tbl, nticks, inflight>>
    /\ TaskFrame

\* if (!ble_context_object.connection_id()) continue;
TaskCheckConnection ==
    /\ Running
    /\ task_pc = "check_connection"
    /\ task_pc' = IF m_connection_id = 0 THEN "take" ELSE "check_config"
    /\ last' = Last("tick", "none", 0,
                    IF m_connection_id = 0 THEN "skipped" ELSE "checking",
                    0, 0)
    /\ out' = <<>>
    /\ UNCHANGED <<tbl, nticks, inflight, notify>>
    /\ TaskFrame

\* if (!(app_bas_battery_level_client_char_config[0] & ...)) continue;
TaskCheckConfig ==
    /\ Running
    /\ task_pc = "check_config"
    /\ LET enabled == notifications_enabled(tbl[BasConfigIndex].p_data[1])
       IN /\ task_pc' = IF enabled THEN "update" ELSE "take"
          /\ last' = Last("tick", "none", 0,
                          IF enabled THEN "checking" ELSE "skipped", 0, 0)
    /\ out' = <<>>
    /\ UNCHANGED <<tbl, nticks, inflight, notify>>
    /\ TaskFrame

\* battery_service_update_percentage()
TaskUpdate ==
    /\ Running
    /\ task_pc = "update"
    /\ nticks < MaxTicks
    /\ nticks' = nticks + 1
    /\ tbl' = [tbl EXCEPT ![BasIndex].p_data[1] =
                  battery_service_update_percentage(
                      tbl[BasIndex].p_data[1], BATTERY_LEVEL_CHANGE)]
    /\ task_pc' = "send"
    /\ last' = Last("tick", "none", HDLC_BAS_BATTERY_LEVEL_VALUE, "updated",
                    0, 0)
    /\ out' = <<>>
    /\ UNCHANGED <<inflight, notify>>
    /\ TaskFrame

\* wiced_bt_gatt_server_send_notification(connection_id(), ...)
TaskSend ==
    /\ Running
    /\ task_pc = "send"
    /\ task_pc' = "take"
    /\ out' = << battery_notification(tbl[BasIndex].p_data[1]) >>
    /\ inflight' = inflight \cup HandedOver(out')
    /\ last' = Last("tick", "none", HDLC_BAS_BATTERY_LEVEL_VALUE,
                    WICED_BT_GATT_SUCCESS, 0, 0)
    /\ UNCHANGED <<tbl, nticks, notify>>
    /\ TaskFrame

\* GATT_REQ_MTU: the status is what wiced_bt_gatt_server_send_mtu_rsp returns
MtuReq(send_status) ==
    /\ Running /\ m_connection_id # 0
    /\ Deliver("mtu", GATT_REQ_MTU, 0, 0, heap,
               [status |-> send_status, error_handle |-> 0,
                out |-> IF send_status = WICED_BT_GATT_SUCCESS
                        THEN << Msg("mtu_rsp", GATT_REQ_MTU, 0,
                                    WICED_BT_GATT_SUCCESS, 0, <<>>, 0, FALSE) >>
                        ELSE <<>>,
                frees |-> <<>>])
    /\ UNCHANGED <<tbl, nticks>> /\ UNCHANGED connVars /\ UNCHANGED taskVars
    /\ UNCHANGED otaVars /\ calls' = <<>>

\* opcodes that have no case in the switch of ble_gatt_event_handler
UnroutedOpcodes == {"GATT_REQ_FIND_INFO", "GATT_REQ_READ_BY_GRP_TYPE"}

\* the default branch of ble_gatt_event_handler: status keeps the value it
\* was initialised with, wiced_bt_gatt_status_t{}, which is
\* WICED_BT_GATT_SUCCESS
UnroutedReq(opcode) ==
    /\ Running /\ m_connection_id # 0
    /\ opcode \in UnroutedOpcodes
    /\ Deliver("unrouted", opcode, 0, 0, heap,
               [status |-> WICED_BT_GATT_SUCCESS, error_handle |-> 0,
                out |-> <<>>, frees |-> <<>>])
    /\ UNCHANGED <<tbl, nticks>> /\ UNCHANGED connVars /\ UNCHANGED taskVars
    /\ UNCHANGED otaVars /\ calls' = <<>>

\* GATT_REQ_WRITE / GATT_CMD_WRITE / GATT_CMD_SIGNED_WRITE to a
\* firmware-update handle. byte0 is p_val[0], which for an empty value is
\* whatever the request memory holds.
OtaWriteReq(opcode, handle, byte0, ok1, ok2) ==
    /\ Running /\ m_connection_id # 0
    /\ write_to_ota(handle)
    /\ LET r == ota_agent_write_handler(ota, engines, handle, byte0, ok1, ok2)
           returned == r.sys = "running"
           rsp == write_rsp(opcode, handle, r.status)
       IN /\ r.engines <= MaxSessions
          /\ ota' = r.ota
          /\ engines' = r.engines
          /\ sys' = r.sys
          /\ calls' = r.calls
          /\ IF returned
             THEN Deliver("write", opcode, handle, 0, heap,
                          [status |-> r.status, error_handle |-> handle,
                           out |-> rsp, frees |-> <<>>])
             ELSE /\ last' = Last("write", opcode, handle, "none", 0, 0)
                  /\ out' = <<>>
                  /\ UNCHANGED heapVars
    /\ UNCHANGED <<tbl, nticks>> /\ UNCHANGED connVars /\ UNCHANGED taskVars

\* GATT_HANDLE_VALUE_CONF: ota_agent_confirmation_handler, then success
\* unless the system was reset
ValueConfirmation(lib_state) ==
    /\ Running /\ m_connection_id # 0
    /\ LET r == ota_agent_confirmation_handler(ota, engines, lib_state)
       IN /\ ota' = r.ota
          /\ engines' = r.engines
          /\ sys' = r.sys
          /\ calls' = r.calls
          /\ last' = Last("value_confirmation", GATT_HANDLE_VALUE_CONF, 0,
                          IF r.sys = "running" THEN WICED_BT_GATT_SUCCESS
                          ELSE "none", 0, 0)
          /\ out' = <<>>
    /\ UNCHANGED <<tbl, nticks>> /\ UNCHANGED connVars /\ UNCHANGED taskVars /\ UNCHANGED heapVars

\* ------------------------------------------------------------ input domains
ReadOpcodes == {GATT_REQ_READ, GATT_REQ_READ_BLOB}
ReadMultiOpcodes == {GATT_REQ_READ_MULTI, GATT_REQ_READ_MULTI_VAR_LENGTH}
WriteOpcodes == {GATT_REQ_WRITE, GATT_CMD_WRITE, GATT_CMD_SIGNED_WRITE}
AdvertModes == {BTM_BLE_ADVERT_OFF, BTM_BLE_ADVERT_UNDIRECTED_HIGH}
Uuids == {"battery_level", "client_char_config", "characteristic"}
\* every value up to MaxWriteLen bytes, and one that is a byte longer
WriteValues == SeqsUpTo(WriteBytes, MaxWriteLen)
                   \cup {[k \in 1..(MaxWriteLen + 1) |-> 1]}
HandleLists == SeqsUpTo(ReqHandles, MaxMultiHandles)

\* read requests: the transport refuses a response only in some GATT_REQ_READ
ReadInputs ==
    {[opcode |-> o, handle |-> h, offset |-> f, len |-> n, status |-> st] :
        o \in ReadOpcodes, h \in ReqHandles, f \in 0..MaxOffset,
        n \in 0..MaxReqLen, st \in {WICED_BT_GATT_SUCCESS}}
    \cup {[opcode |-> GATT_REQ_READ, handle |-> h, offset |-> 0, len |-> n,
           status |-> WICED_BT_GATT_NO_RESOURCES] :
              h \in ReqHandles, n \in 0..MaxReqLen}

\* write requests: a value with its length, or a null pointer with a length
WriteInputs ==
    {[opcode |-> o, handle |-> h, p_val |-> Source(v), val_len |-> Len(v)] :
        o \in WriteOpcodes, h \in ReqHandles, v \in WriteValues}
    \cup {[opcode |-> GATT_REQ_WRITE, handle |-> h, p_val |-> NullSource,
           val_len |-> n] : h \in ReqHandles, n \in 0..MaxWriteLen}

Next ==
    \/ Connect(MaxConnId, TRUE)
    \/ Disconnect(TRUE, FALSE, TRUE)
    \/ \E rd \in ReadInputs :
          ReadReq(rd.opcode, rd.handle, rd.offset, rd.len, rd.status)
    \/ \E wr \in WriteInputs :
          WriteReq(wr.opcode, wr.handle, wr.p_val, wr.val_len)
    \/ \E h \in ReqHandles : PrepareWriteReq(h)
    \/ ExecuteWriteReq
    \/ NotifierTick

Spec == Init /\ [][Next]_vars

\* ------------------------------------------- multi-attribute reads, buffers
\* len_requested of a multi-attribute read: room for one byte, or for
\* MaxRspLen bytes
RspLens == {1, MaxRspLen}
RangeStarts == {1, HDLD_BAS_BATTERY_LEVEL_CLIENT_CHAR_CONFIG + 1}
RangeEnds == {HDLD_BAS_BATTERY_LEVEL_CLIENT_CHAR_CONFIG, UINT16 - 1}

ReadByTypeInputs ==
    {[s_handle |-> s, e_handle |-> e, uuid |-> u, len |-> n] :
        s \in RangeStarts, e \in RangeEnds, u \in Uuids, n \in RspLens}

ReadMultiInputs ==
    {[opcode |-> o, handles |-> hs, handle0 |-> h0, len |-> n] :
        o \in ReadMultiOpcodes, hs \in HandleLists \ {<<>>}, h0 \in {0},
        n \in RspLens}
    \cup {[opcode |-> o, handles |-> <<>>, handle0 |-> h0, len |-> n] :
              o \in ReadMultiOpcodes, h0 \in ReqHandles, n \in RspLens}

\* client configuration values written between the reads: one of each length
ConfigValues == {[k \in 1..n |-> 0] : n \in 0..(MaxWriteLen + 1)}

NextBuf ==
    \/ Connect(MaxConnId, TRUE)
    \/ \E v \in ConfigValues :
          WriteReq(GATT_REQ_WRITE, HDLD_BAS_BATTERY_LEVEL_CLIENT_CHAR_CONFIG,
                   Source(v), Len(v))
    \/ \E rt \in ReadByTypeInputs, response \in MallocResults(heap) :
          ReadByTypeReq(rt.s_handle, rt.e_handle, rt.uuid, rt.len, response)
    \/ \E rm \in ReadMultiInputs, response \in MallocResults(heap) :
          ReadMultiReq(rm.opcode, rm.handles, rm.handle0, rm.len, response)
    \/ \E h \in ReqHandles :
          ReadReq(GATT_REQ_READ, h, 0, MaxReqLen, WICED_BT_GATT_SUCCESS)
    \/ \E response \in MallocResults(heap) : GetResponseBuffer(response)
    \/ \E x \in inflight : BufferTransmitted(x)

SpecBuf == Init /\ [][NextBuf]_vars

\* ------------------------------------------------- firmware update session
\* first bytes of a control point write: the four commands and a byte that
\* is none of them
CommandBytes ==
    {CY_OTA_UPGRADE_COMMAND_PREPARE_DOWNLOAD, CY_OTA_UPGRADE_COMMAND_DOWNLOAD,
     CY_OTA_UPGRADE_COMMAND_VERIFY, CY_OTA_UPGRADE_COMMAND_ABORT, 0}
\* first bytes of a client configuration write: notify, indicate
DescriptorBytes == {1, 2}
EngineStates == {CY_OTA_STATE_OTA_COMPLETE, CY_OTA_STATE_AGENT_WAITING}

OtaWriteInputs ==
    {[opcode |-> o, handle |-> h, byte0 |-> b] :
        o \in WriteOpcodes,
        h \in {HDLC_OTA_FW_UPGRADE_SERVICE_OTA_UPGRADE_CONTROL_POINT_VALUE,
               HDLC_OTA_FW_UPGRADE_SERVICE_OTA_UPGRADE_DATA_VALUE},
        b \in CommandBytes}
    \cup {[opcode |-> o,
           handle |-> HDLD_OTA_FW_UPGRADE_SERVICE_OTA_UPGRADE_CONTROL_POINT_CLIENT_CHAR_CONFIG,
           byte0 |-> b] : o \in WriteOpcodes, b \in DescriptorBytes}

\* handles of the plain writes made between the firmware-update writes
PlainHandles == (ReqHandles \cup OtaHandles)
                    \ {HDLD_BAS_BATTERY_LEVEL_CLIENT_CHAR_CONFIG}

NextCtx ==
    \/ \E c \in ConnIds, led_ok \in BOOLEAN : Connect(c, led_ok)
    \/ \E adv_ok \in BOOLEAN, assert_halts \in BOOLEAN, led_ok \in BOOLEAN :
          Disconnect(adv_ok, assert_halts, led_ok)
    \/ \E mode \in AdvertModes, led_ok \in BOOLEAN :
          AdvertStateChanged(mode, led_ok)
    \/ \E w \in OtaWriteInputs, ok1 \in BOOLEAN, ok2 \in BOOLEAN :
          OtaWriteReq(w.opcode, w.handle, w.byte0, ok1, ok2)
    \/ \E o \in WriteOpcodes, h \in PlainHandles, v \in ConfigValues :
          WriteReq(o, h, Source(v), Len(v))
    \/ PrepareWriteReq(HDLC_BAS_BATTERY_LEVEL_VALUE)
    \/ ExecuteWriteReq
    \/ \E lib_state \in EngineStates : ValueConfirmation(lib_state)

SpecCtx == Init /\ [][NextCtx]_vars

\* ------------------------------------------------------------ notifier task
\* writes of the peer while the notifier runs: the client configuration
\* (off, notify, indicate) and the battery level
TaskWrites ==
    {[handle |-> HDLD_BAS_BATTERY_LEVEL_CLIENT_CHAR_CONFIG, value |-> v] :
        v \in {<<0, 0>>, <<1, 0>>, <<2, 0>>}}
    \cup {[handle |-> HDLC_BAS_BATTERY_LEVEL_VALUE, value |-> v] :
             v \in {<<0>>, <<1>>, <<4>>}}

NextTask ==
    \/ Connect(MaxConnId, TRUE)
    \/ Disconnect(TRUE, FALSE, TRUE)
    \/ \E w \in TaskWrites :
          WriteReq(GATT_REQ_WRITE, w.handle, Source(w.value), Len(w.value))
    \/ TimerCallback
    \/ TaskTake
    \/ TaskCheckConnection
    \/ TaskCheckConfig
    \/ TaskUpdate
    \/ TaskSend

SpecTask == Init /\ [][NextTask]_vars

\* ------------------------------------------------------------ every event
\* one instance of every event of the dispatcher and of the notifier; the peer
\* enables notifications, writes a level, and writes a value that is too long
AllWrites ==
    {[handle |-> HDLD_BAS_BATTERY_LEVEL_CLIENT_CHAR_CONFIG, value |-> <<1, 0>>],
     [handle |-> HDLC_BAS_BATTERY_LEVEL_VALUE, value |-> <<4>>],
     [handle |-> HDLC_BAS_BATTERY_LEVEL_VALUE, value |-> <<1, 1>>]}

NextAll ==
    \/ Connect(MaxConnId, TRUE)
    \/ Disconnect(TRUE, FALSE, TRUE)
    \/ AdvertStateChanged(BTM_BLE_ADVERT_OFF, TRUE)
    \/ ReadReq(GATT_REQ_READ, HDLC_BAS_BATTERY_LEVEL_VALUE, 0, MaxReqLen,
               WICED_BT_GATT_SUCCESS)
    \/ \E response \in MallocResults(heap) :
          ReadByTypeReq(1, UINT16 - 1, "battery_level", MaxRspLen, response)
    \/ \E response \in MallocResults(heap) :
          ReadMultiReq(GATT_REQ_READ_MULTI,
                       << HDLC_BAS_BATTERY_LEVEL_VALUE >>, 0, MaxRspLen,
                       response)
    \/ \E w \in AllWrites :
          WriteReq(GATT_REQ_WRITE, w.handle, Source(w.value), Len(w.value))
    \/ \E b \in {CY_OTA_UPGRADE_COMMAND_PREPARE_DOWNLOAD,
                  CY_OTA_UPGRADE_COMMAND_ABORT} :
          OtaWriteReq(GATT_REQ_WRITE,
                      HDLC_OTA_FW_UPGRADE_SERVICE_OTA_UPGRADE_CONTROL_POINT_VALUE,
                      b, TRUE, TRUE)
    \/ PrepareWriteReq(HDLC_BAS_BATTERY_LEVEL_VALUE)
    \/ ExecuteWriteReq
    \/ \E st \in {WICED_BT_GATT_SUCCESS, WICED_BT_GATT_NO_RESOURCES} : MtuReq(st)
    \/ ValueConfirmation(CY_OTA_STATE_AGENT_WAITING)
    \/ \E o \in UnroutedOpcodes : UnroutedReq(o)
    \/ \E response \in MallocResults(heap) : GetResponseBuffer(response)
    \/ \E x \in inflight : BufferTransmitted(x)
    \/ NotifierTick

SpecAll == Init /\ [][NextAll]_vars

\* the firmware-update handlers on a context whose tag is the valid marker,
\* the invalid marker, or the 0 of the value-initialized object before
\* stack_initialize
Tags == {"BLE_CONTEXT_TAG_VALID", "BLE_CONTEXT_TAG_INVALID", "UNINITIALIZED"}

InitTag ==
    /\ tbl = app_gatt_db_ext_attr_tbl
    /\ m_connection_id = 0
    /\ m_connection_state = disconnected_not_advertising
    /\ led = "off"
    /\ halted = FALSE
    /\ heap = [b \in BufIds |-> FALSE]
    /\ inflight = {}
    /\ double_free = FALSE
    /\ nticks = 0
    /\ last = Last("init", "none", 0, WICED_BT_GATT_SUCCESS, 0, 0)
    /\ out = <<>>
    /\ ota \in {[ble_context_object EXCEPT !.m_tag = t] : t \in Tags}
    /\ engines = 0
    /\ sys = "running"
    /\ calls = <<>>
    /\ task_pc = "take"
    /\ notify = 0

NextTag ==
    \/ Connect(MaxConnId, TRUE)
    \/ \E w \in OtaWriteInputs, ok1 \in BOOLEAN, ok2 \in BOOLEAN :
          OtaWriteReq(w.opcode, w.handle, w.byte0, ok1, ok2)
    \/ \E lib_state \in EngineStates : ValueConfirmation(lib_state)

SpecTag == InitTag /\ [][NextTag]_vars

\* ================================================================== claims
IndexOf(h) == ble_gatt_db_find_by_handle(tbl, h)
NoRsp(sent, kind) == \A k \in 1..Len(sent) : sent[k].kind # kind
Handed(b) == [buf |-> b, ctxt |-> TRUE]

\* C1 (as stated): in every reachable state every attribute entry has
\* current_length <= max_length and only zero bytes at the indexes from
\* current_length up to max_length.
C1_ZeroTailInvariant ==
    \A i \in 1..Len(tbl) :
        /\ tbl[i].cur_len <= tbl[i].max_len
        /\ \A k \in (tbl[i].cur_len + 1)..tbl[i].max_len : tbl[i].p_data[k] = 0

\* C2: in every reachable table, a write of length <= max_length from a
\* valid byte source to an entry succeeds; afterwards current_length is the
\* length, the first length bytes are the input bytes and every byte from
\* length up to max_length is zero.
C2_SetValueStoresAndZeroFills ==
    \A i \in 1..Len(tbl), v \in WriteValues :
        LET r == ble_gatt_db_set_value(tbl, tbl[i].handle, Source(v), Len(v))
        IN Len(v) <= tbl[i].max_len
           => /\ r.status = WICED_BT_GATT_SUCCESS
              /\ r.tbl[i].cur_len = Len(v)
              /\ Len(r.tbl[i].p_data) = tbl[i].max_len
              /\ \A k \in 1..Len(v) : r.tbl[i].p_data[k] = v[k]
              /\ \A k \in (Len(v) + 1)..tbl[i].max_len : r.tbl[i].p_data[k] = 0
              /\ ble_gatt_command_write_handler(
                     tbl, tbl[i].handle, Source(v), Len(v)).tbl = r.tbl

\* C2 witness: a successful one-byte write over a two-byte value left the
\* entry with current_length 1 and a zero second byte
C2_Witness ==
    /\ last.op = "write" /\ last.status = WICED_BT_GATT_SUCCESS
    /\ IndexOf(last.handle) # 0
    /\ tbl[IndexOf(last.handle)].max_len = 2
    /\ tbl[IndexOf(last.handle)].cur_len = 1
    /\ tbl[IndexOf(last.handle)].p_data = <<1, 0>>

\* C3 (as stated): every write to a handle that is not in the table returns
\* NotFound (invalid handle), whatever the byte source and the length.
C3_UnknownHandleAlwaysNotFound ==
    (last.op = "write" /\ IndexOf(last.handle) = 0)
        => last.status = WICED_BT_GATT_INVALID_HANDLE

\* C3 (amended): a handle that is not in the table is not found, and a write
\* to it returns NotFound when its byte source is valid or its length is 0,
\* and InvalidPdu when the byte source is null and the length is nonzero; no
\* entry changes.
C3_UnknownHandleWrite ==
    \A wr \in WriteInputs :
        LET r == ble_gatt_command_write_handler(tbl, wr.handle, wr.p_val,
                                                wr.val_len)
        IN (\A i \in 1..Len(tbl) : tbl[i].handle # wr.handle)
           => /\ ble_gatt_db_find_by_handle(tbl, wr.handle) = 0
              /\ r.status = IF wr.val_len > 0 /\ wr.p_val.null
                            THEN WICED_BT_GATT_INVALID_PDU
                            ELSE WICED_BT_GATT_INVALID_HANDLE
              /\ r.tbl = tbl

\* C3 witness: a write from a null source to an unknown handle was refused
\* as an invalid PDU
C3_Witness ==
    /\ last.op = "write" /\ IndexOf(last.handle) = 0
    /\ last.status = WICED_BT_GATT_INVALID_PDU

C5_ReadResponseLength ==
    \A rd \in ReadInputs :
        LET i == IndexOf(rd.handle)
            n == Min(rd.len, tbl[i].cur_len - rd.offset)
            r == ble_gatt_request_read_handler(tbl, rd.opcode, rd.handle,
                                               rd.offset, rd.len, rd.status)
        IN (i # 0 /\ rd.offset < tbl[i].cur_len)
           => IF rd.status = WICED_BT_GATT_SUCCESS
              THEN /\ r.status = WICED_BT_GATT_SUCCESS
                   /\ Len(r.out) = 1
                   /\ r.out[1].kind = "read_rsp"
                   /\ r.out[1].len = n
                   /\ r.out[1].data =
                         SubSeq(tbl[i].p_data, rd.offset + 1, rd.offset + n)
                   /\ rd.offset + r.out[1].len <= tbl[i].cur_len
                   /\ r.out[1].len <= rd.len
              ELSE r.out = <<>>

\* C5 witness: a read response of one byte was sent for an attribute of
\* current_length 2
C5_Witness ==
    /\ last.op = "read" /\ last.status = WICED_BT_GATT_SUCCESS
    /\ Len(out) = 1 /\ out[1].kind = "read_rsp"
    /\ out[1].len = 1 /\ Len(out[1].data) = 1
    /\ tbl[IndexOf(last.handle)].cur_len = 2

\* C6 (as stated): a read-multiple request whose handle list holds a handle
\* that is not in the table returns an error status and sends no
\* read-multiple response.
C6_ReadMultiAllOrNothing ==
    [][\A rm \in ReadMultiInputs, response \in 0..MaxBufs :
          (/\ last'.op = "read_multi"
           /\ \E k \in 1..Len(rm.handles) : IndexOf(rm.handles[k]) = 0
           /\ ReadMultiReq(rm.opcode, rm.handles, rm.handle0, rm.len, response))
          => /\ last'.status # WICED_BT_GATT_SUCCESS
             /\ NoRsp(out', "read_multi_rsp")]_vars

\* C7 (as stated): a read-by-type over a range with no matching attribute
\* returns NotFound and sends no response, and the response buffer is freed
\* or handed to the transport with the release callback.
C7_ReadByTypeNoMatchIsNotFound ==
    [][\A rt \in ReadByTypeInputs, response \in 0..MaxBufs :
          (/\ last'.op = "read_by_type"
           /\ wiced_bt_gatt_find_handle_by_type(rt.s_handle, rt.e_handle,
                                                rt.uuid) = 0
           /\ ReadByTypeReq(rt.s_handle, rt.e_handle, rt.uuid, rt.len,
                            response))
          => /\ last'.status = WICED_BT_GATT_INVALID_HANDLE
             /\ NoRsp(out', "read_by_type_rsp")
             /\ response # 0 => ~heap'[response]]_vars

\* C7 (amended): a read-by-type over a range with no matching attribute
\* sends no response and returns NotFound, or InsufficientResources when the
\* response buffer could not be allocated; on every exit path the response
\* buffer is either freed (error status, nothing sent) or handed to the
\* transport with the release callback (success), never left allocated and
\* unowned.
C7_ReadByTypeNoMatchNoLeak ==
    /\ \A rt \in ReadByTypeInputs, response \in 0..MaxBufs :
          LET r == ble_gatt_request_read_by_type_handler(
                       tbl, GATT_REQ_READ_BY_TYPE, response, rt.s_handle,
                       rt.e_handle, rt.uuid, rt.len)
          IN /\ wiced_bt_gatt_find_handle_by_type(rt.s_handle, rt.e_handle,
                                                  rt.uuid) = 0
                => /\ r.out = <<>>
                   /\ r.status = IF response = 0
                                 THEN WICED_BT_GATT_INSUF_RESOURCE
                                 ELSE WICED_BT_GATT_INVALID_HANDLE
             /\ response = 0 => (r.frees = <<>> /\ r.out = <<>>)
             /\ response # 0
                => \/ /\ r.status # WICED_BT_GATT_SUCCESS
                      /\ r.frees = <<response>> /\ r.out = <<>>
                   \/ /\ r.status = WICED_BT_GATT_SUCCESS
                      /\ r.frees = <<>> /\ Len(r.out) = 1
                      /\ r.out[1].buf = response /\ r.out[1].ctxt
    /\ (last.op = "read_by_type" /\ last.buf # 0)
          => IF last.status = WICED_BT_GATT_SUCCESS
             THEN heap[last.buf] /\ Handed(last.buf) \in inflight
             ELSE ~heap[last.buf]

\* C7 witness: a read-by-type that found nothing returned NotFound after its
\* buffer was allocated, and the buffer is free again
C7_Witness ==
    /\ last.op = "read_by_type" /\ last.buf # 0
    /\ last.status = WICED_BT_GATT_INVALID_HANDLE
    /\ ~heap[last.buf]
    /\ NoRsp(out, "read_by_type_rsp")

\* C8 (as stated): when the read-multiple handler returns, the response
\* buffer it allocated is either freed or in the hands of the transport with
\* the release callback.
C8_ReadMultiNoLeak ==
    (last.op = "read_multi" /\ last.buf # 0)
        => (~heap[last.buf] \/ Handed(last.buf) \in inflight)

\* C9: no heap buffer is released twice and nothing but an allocated block
\* is released: every buffer the transport holds with a release callback is
\* still allocated (a handler never frees what it hands over), and a buffer
\* held without a release callback is static memory that the
\* buffer-transmitted event leaves alone.
C9_ReleaseAtMostOnce ==
    /\ ~double_free
    /\ \A x \in inflight :
          IF x.ctxt THEN x.buf # 0 /\ heap[x.buf]
          ELSE x.buf = 0 /\ buffer_transmitted_frees(x) = <<>>

\* C9 witness: the buffer-transmitted event released a heap buffer while
\* the transport still holds a static one
C9_Witness ==
    /\ last.op = "buffer_transmitted" /\ last.buf # 0
    /\ ~heap[last.buf]
    /\ [buf |-> 0, ctxt |-> FALSE] \in inflight

\* C10: the context starts in disconnected_not_advertising with
\* connection_id 0; after a connect event connection_id is the peer's id and
\* the state is connected; after a disconnect event connection_id is 0,
\* exactly one start-advertising request was issued for it, and the state is
\* disconnected_and_advertising once the handler has returned.
C10_ConnectionFsm ==
    /\ last.op = "init"
          => /\ m_connection_state = disconnected_not_advertising
             /\ m_connection_id = 0
    /\ last.op = "connect"
          => /\ m_connection_id = last.handle /\ m_connection_id # 0
             /\ m_connection_state = connected
             /\ last.adv = 0
    /\ last.op = "disconnect"
          => /\ m_connection_id = 0
             /\ last.adv = 1
             /\ ~halted => m_connection_state = disconnected_and_advertising

\* C10 witness: a disconnect event was handled to the end
C10_Witness ==
    /\ last.op = "disconnect" /\ ~halted
    /\ m_connection_id = 0
    /\ m_connection_state = disconnected_and_advertising
    /\ last.adv = 1

\* the advertising modes of wiced_bt_ble_advert_mode_t other than off
NonOffModes ==
    {"BTM_BLE_ADVERT_DIRECTED_HIGH", "BTM_BLE_ADVERT_DIRECTED_LOW",
     BTM_BLE_ADVERT_UNDIRECTED_HIGH, "BTM_BLE_ADVERT_UNDIRECTED_LOW",
     "BTM_BLE_ADVERT_NONCONN_HIGH", "BTM_BLE_ADVERT_NONCONN_LOW"}

\* the names of the calls made, in order
CallNames == [i \in 1..Len(calls) |-> calls[i].fn]

ConnectionOps == {"connect", "disconnect", "advert_state_changed"}

\* C11: after an advertising-mode-changed event whose mode is off the state
\* is connected when the connection id is not 0 and
\* disconnected_not_advertising when it is 0.
C11_AdvertOffKeepsConnection ==
    /\ (last.op = "advert_state_changed" /\ last.opcode = BTM_BLE_ADVERT_OFF)
          => m_connection_state =
                IF m_connection_id # 0 THEN connected
                ELSE disconnected_not_advertising
    /\ set_advertising_mode(BTM_BLE_ADVERT_OFF, m_connection_id) =
          IF m_connection_id # 0 THEN connected
          ELSE disconnected_not_advertising

C11_Witness ==
    /\ last.op = "advert_state_changed" /\ last.opcode = BTM_BLE_ADVERT_OFF
    /\ m_connection_id # 0 /\ m_connection_state = connected

\* C12: after an advertising-mode-changed event whose mode is anything but
\* off the state is disconnected_and_advertising, whatever the connection id.
C12_AdvertOnIsAdvertising ==
    /\ (last.op = "advert_state_changed" /\ last.opcode # BTM_BLE_ADVERT_OFF)
          => m_connection_state = disconnected_and_advertising
    /\ \A mode \in NonOffModes :
          set_advertising_mode(mode, m_connection_id) =
             disconnected_and_advertising

C12_Witness ==
    /\ last.op = "advert_state_changed" /\ last.opcode # BTM_BLE_ADVERT_OFF
    /\ m_connection_id # 0
    /\ m_connection_state = disconnected_and_advertising

\* C13: after every connect, disconnect or advertising-mode-changed event
\* that was handled the LED was stopped, given a pattern and started, in
\* that order; the pattern is off for disconnected_not_advertising, blinking
\* for disconnected_and_advertising and on for connected; the state is the
\* one the event leads to whether or not the LED calls succeeded.
C13_LedFollowsState ==
    (~halted /\ last.op \in ConnectionOps) =>
        /\ Len(calls) >= 3
        /\ SubSeq(CallNames, Len(calls) - 2, Len(calls)) =
              << "led_stop", "led_set_blink_rate", "led_start" >>
        /\ m_connection_state = disconnected_not_advertising => led = "off"
        /\ m_connection_state = disconnected_and_advertising
              => led = "blinking"
        /\ m_connection_state = connected => led = "on"
        /\ last.op = "connect" => m_connection_state = connected
        /\ last.op = "disconnect"
              => m_connection_state = disconnected_and_advertising
        /\ last.op = "advert_state_changed"
              => m_connection_state =
                    set_advertising_mode(last.opcode, m_connection_id)

C13_Witness ==
    /\ ~halted /\ last.op = "connect"
    /\ calls = led_calls(FALSE)
    /\ m_connection_state = connected /\ led = "on"

\* C14: when the transport refuses the advertising request of a disconnect
\* the program stops in the assertion: the state does not become
\* disconnected_and_advertising and no further event is handled.
C14_RefusedAdvertisingHalts ==
    (last.op = "disconnect"
        /\ calls[1] = Call("wiced_bt_start_advertisements", FALSE))
        => (halted /\ m_connection_state # disconnected_and_advertising)

\* the error responses among the PDUs sent
ErrorRsps(sent) == SelectSeq(sent, LAMBDA m : m.kind = "error_rsp")
WriteRsps(sent) == SelectSeq(sent, LAMBDA m : m.kind = "write_rsp")

ErrorRsp(opcode, handle, status) ==
    Msg("error_rsp", opcode, handle, status, 0, <<>>, 0, FALSE)

\* C15: a write response is sent exactly when the opcode is GATT_REQ_WRITE
\* and the write handler returned success; GATT_CMD_WRITE and
\* GATT_CMD_SIGNED_WRITE never produce one.
C15_WriteRspOnlyForConfirmedWrite ==
    last.op = "write" =>
        /\ Len(WriteRsps(out)) <= 1
        /\ WriteRsps(out) # <<>>
              <=> (last.opcode = GATT_REQ_WRITE
                      /\ last.status = WICED_BT_GATT_SUCCESS)
        /\ last.opcode \in {GATT_CMD_WRITE, GATT_CMD_SIGNED_WRITE}
              => WriteRsps(out) = <<>>

C15_Witness ==
    /\ last.op = "write" /\ last.opcode = GATT_REQ_WRITE
    /\ last.handle = HDLC_OTA_FW_UPGRADE_SERVICE_OTA_UPGRADE_DATA_VALUE
    /\ last.status = WICED_BT_GATT_SUCCESS
    /\ WriteRsps(out) # <<>>

\* C16: a GATT_CMD_WRITE or GATT_CMD_SIGNED_WRITE whose handler returned a
\* status other than success sends nothing to the peer: no write response
\* and no error response.
C16_FailedCommandSendsNothing ==
    (/\ last.op = "write"
     /\ last.opcode \in {GATT_CMD_WRITE, GATT_CMD_SIGNED_WRITE}
     /\ last.status \notin {WICED_BT_GATT_SUCCESS, "none"})
        => out = <<>>

\* C17: a read, read-blob, read-by-type, read-multiple or confirmed write
\* whose handler returned a status other than success is answered with
\* exactly one error response, which carries the opcode of the request, the
\* handle the handler recorded and that status; nothing else is sent.
C17_ErrorRspForAcknowledged ==
    /\ (/\ last.op \in {"read", "read_by_type", "read_multi"}
           \/ (last.op = "write" /\ last.opcode = GATT_REQ_WRITE)
        /\ last.status \notin {WICED_BT_GATT_SUCCESS, "none"})
          => /\ Len(out) = 1
             /\ out[1].kind = "error_rsp"
             /\ out[1].opcode = last.opcode
             /\ out[1].status = last.status
             /\ last.op \in {"read", "write"} => out[1].handle = last.handle
    /\ \A rd \in ReadInputs :
          LET r == ble_gatt_request_read_handler(tbl, rd.opcode, rd.handle,
                       rd.offset, rd.len, rd.status)
          IN r.status # WICED_BT_GATT_SUCCESS
                => with_error_rsp(rd.opcode, r.status, r.error_handle, r.out)
                      = << ErrorRsp(rd.opcode, rd.handle, r.status) >>
    /\ \A wr \in WriteInputs :
          LET r == ble_gatt_command_write_handler(tbl, wr.handle, wr.p_val,
                                                  wr.val_len)
          IN (wr.opcode = GATT_REQ_WRITE /\ r.status # WICED_BT_GATT_SUCCESS)
                => with_error_rsp(wr.opcode, r.status, r.error_handle,
                                  write_rsp(wr.opcode, wr.handle, r.status))
                      = << ErrorRsp(wr.opcode, wr.handle, r.status) >>
    /\ \A w \in OtaWriteInputs, ok1 \in BOOLEAN, ok2 \in BOOLEAN :
          LET r == ota_agent_write_handler(ota, engines, w.handle, w.byte0,
                                           ok1, ok2)
          IN (/\ w.opcode = GATT_REQ_WRITE /\ r.sys = "running"
              /\ r.status # WICED_BT_GATT_SUCCESS)
                => with_error_rsp(w.opcode, r.status, w.handle,
                                  write_rsp(w.opcode, w.handle, r.status))
                      = << ErrorRsp(w.opcode, w.handle, r.status) >>

C17_Witness ==
    /\ last.op = "read_multi" /\ last.status # WICED_BT_GATT_SUCCESS
    /\ out = << ErrorRsp(last.opcode, HDL_UNKNOWN, last.status) >>

\* C18: a write to one of the three firmware-update handles changes no
\* attribute entry and gets the status of ota_agent_write_handler; a write
\* to any other handle is ble_gatt_db_set_value and makes no call to the
\* update engine nor changes the update session.
C18_WriteDispatch ==
    [][last'.op = "write" =>
          IF last'.handle \in OtaHandles
          THEN /\ tbl' = tbl
               /\ last'.status \in {WICED_BT_GATT_SUCCESS,
                     WICED_BT_GATT_ERROR, WICED_BT_GATT_REQ_NOT_SUPPORTED,
                     "none"}
          ELSE /\ calls' = <<>>
               /\ ota' = ota /\ engines' = engines /\ sys' = sys
               /\ \E v \in ConfigValues :
                     LET r == ble_gatt_db_set_value(tbl, last'.handle,
                                                    Source(v), Len(v))
                     IN tbl' = r.tbl /\ last'.status = r.status]_vars

C18_Witness ==
    /\ last.op = "write"
    /\ last.handle = HDLC_OTA_FW_UPGRADE_SERVICE_OTA_UPGRADE_CONTROL_POINT_VALUE
    /\ calls # <<>> /\ calls[1].fn = "cy_ota_agent_start"
    /\ tbl = app_gatt_db_ext_attr_tbl

\* C19: GATT_REQ_PREPARE_WRITE returns success, sends nothing and stores
\* nothing; GATT_REQ_EXECUTE_WRITE sends the execute-write response and
\* returns success; neither changes an attribute entry, so the entries after
\* a prepare followed by an execute are those before the two requests.
C19_QueuedWritesStoreNothing ==
    [][/\ last'.op = "prepare_write"
          => (tbl' = tbl /\ out' = <<>>
                 /\ last'.status = WICED_BT_GATT_SUCCESS)
       /\ last'.op = "execute_write"
          => /\ tbl' = tbl
             /\ last'.status = WICED_BT_GATT_SUCCESS
             /\ out' = << Msg("execute_write_rsp", GATT_REQ_EXECUTE_WRITE, 0,
                              WICED_BT_GATT_SUCCESS, 0, <<>>, 0, FALSE) >>]_vars

C19_Witness ==
    /\ last.op = "execute_write"
    /\ out # <<>> /\ out[1].kind = "execute_write_rsp"
    /\ tbl # app_gatt_db_ext_attr_tbl

\* what cy_ota_get_state yields in the confirmation handler
ReportedState(lib_state) ==
    IF ota.m_ota_context = 0 THEN CY_OTA_STATE_NOT_INITIALIZED ELSE lib_state

\* the reset and stop cases of a value confirmation
ConfirmationResetsOrStops(lib_state) ==
    /\ sys' = "reset"
          <=> (ReportedState(lib_state) = CY_OTA_STATE_OTA_COMPLETE
                  /\ ota.m_reboot_at_end)
    /\ sys' = "reset"
          => \E i \in DOMAIN calls' : calls'[i].fn = "NVIC_SystemReset"
    /\ sys' # "reset"
          => /\ \E i \in DOMAIN calls' : calls'[i].fn = "cy_ota_agent_stop"
             /\ \A i \in DOMAIN calls' : calls'[i].fn # "NVIC_SystemReset"
             /\ sys' = "running"
             /\ ota'.m_ota_context = 0

\* C20 as stated: reset exactly when the engine reports OTA_COMPLETE and
\* m_reboot_at_end is set, otherwise stop, no reset and no context left; the
\* dispatcher returns success in both cases.
C20_ConfirmationReturnsSuccess ==
    [][\A lib_state \in EngineStates :
          ValueConfirmation(lib_state)
             => /\ ConfirmationResetsOrStops(lib_state)
                /\ last'.status = WICED_BT_GATT_SUCCESS]_vars

\* C20 amended: reset exactly when the engine reports OTA_COMPLETE and
\* m_reboot_at_end is set, otherwise stop, no reset and no context left; the
\* dispatcher returns success when there was no reset and does not return
\* when there was.
C20_ConfirmationResetOrStop ==
    [][\A lib_state \in EngineStates :
          ValueConfirmation(lib_state)
             => /\ ConfirmationResetsOrStops(lib_state)
                /\ sys' # "reset" => last'.status = WICED_BT_GATT_SUCCESS
                /\ sys' = "reset" => last'.status = "none"]_vars

C20_Witness ==
    /\ last.op = "value_confirmation" /\ sys = "reset"
    /\ ota.m_ota_context # 0 /\ ota.m_reboot_at_end

ControlPoint == HDLC_OTA_FW_UPGRADE_SERVICE_OTA_UPGRADE_CONTROL_POINT_VALUE

\* C21: a prepare command on the control point of a context whose tag is not
\* the valid marker returns an error status and calls neither
\* cy_ota_agent_start nor cy_ota_ble_download_prepare; the context is left
\* as it was.
C21_PrepareWithInvalidTag ==
    ota.m_tag # "BLE_CONTEXT_TAG_VALID" =>
        /\ \A ok1 \in BOOLEAN, ok2 \in BOOLEAN :
              LET r == ota_agent_write_handler(
                           ota, engines, ControlPoint,
                           CY_OTA_UPGRADE_COMMAND_PREPARE_DOWNLOAD, ok1, ok2)
              IN /\ r.status = WICED_BT_GATT_ERROR
                 /\ r.calls = <<>>
                 /\ r.ota = ota /\ r.engines = engines /\ r.sys = "running"
        /\ engines = 0
        /\ \A i \in DOMAIN calls :
              calls[i].fn \notin {"cy_ota_agent_start",
                                  "cy_ota_ble_download_prepare"}

C21_Witness ==
    /\ ota.m_tag = "BLE_CONTEXT_TAG_INVALID"
    /\ last.op = "write" /\ last.handle = ControlPoint
    /\ last.status = WICED_BT_GATT_ERROR
    /\ calls = <<>>

\* C22: an abort command on the control point calls
\* cy_ota_ble_download_abort and returns success, in every state of the
\* session and whatever the engine call returns; it changes nothing of the
\* session.
C22_AbortAlwaysSucceeds ==
    \A ok1 \in BOOLEAN, ok2 \in BOOLEAN :
        LET r == ota_agent_write_handler(ota, engines, ControlPoint,
                     CY_OTA_UPGRADE_COMMAND_ABORT, ok1, ok2)
        IN /\ r.status = WICED_BT_GATT_SUCCESS
           /\ r.calls = << Call("cy_ota_ble_download_abort", ok1) >>
           /\ r.ota = ota /\ r.engines = engines /\ r.sys = "running"

C22_Witness ==
    /\ last.op = "write" /\ last.handle = ControlPoint
    /\ calls = << Call("cy_ota_ble_download_abort", FALSE) >>
    /\ last.status = WICED_BT_GATT_SUCCESS
    /\ ota.m_ota_context = 0 /\ engines = 0

\* C23: a prepare command that fails returns an error status and leaves the
\* session as it was before the command, with no engine started by it.
C23_FailedPrepareChangesNothing ==
    [][\A op \in WriteOpcodes, ok1 \in BOOLEAN, ok2 \in BOOLEAN :
          (/\ OtaWriteReq(op, ControlPoint,
                          CY_OTA_UPGRADE_COMMAND_PREPARE_DOWNLOAD, ok1, ok2)
           /\ last'.status # WICED_BT_GATT_SUCCESS)
             => /\ last'.status = WICED_BT_GATT_ERROR
                /\ ota' = ota
                /\ engines' = engines]_vars

\* C24: at most one engine is started and not stopped, and the context of a
\* started engine is never lost to the session while the engine is active.
C24_AtMostOneSession ==
    /\ engines <= 1
    /\ engines = 1 => ota.m_ota_context # 0

\* ------------------------------------------------------------ notifier task
\* the first byte of the battery level and of its client configuration
Level == tbl[BasIndex].p_data[1]
ConfigBitClear == (tbl[BasConfigIndex].p_data[1] % 2) = 0

\* a notification among the PDUs of the last step
Notified(sent) == \E i \in 1..Len(sent) : sent[i].kind = "notification"

C26_TickDecrements ==
    [][(task_pc = "update" /\ task_pc' = "send" /\ Level \in 0..100)
       => (/\ Level' = (IF Level > 0 THEN Level - BATTERY_LEVEL_CHANGE
                        ELSE BATTERY_LEVEL_FULL)
           /\ Level' \in 0..BATTERY_LEVEL_FULL)]_vars

\* C27: the timer callback only gives the task notification; the level is
\* changed by the update statement of the task alone or by a write of the
\* peer, a notification is sent by the send statement of the task alone, and
\* the task leaves its wait only by taking a pending signal.
C27_TimerOnlySignals ==
    [][/\ notify' > notify
          => (/\ notify' = notify + 1
              /\ tbl' = tbl /\ ~Notified(out') /\ inflight' = inflight
              /\ task_pc' = task_pc /\ nticks' = nticks
              /\ UNCHANGED connVars)
       /\ (tbl' # tbl /\ last'.op # "write")
          => (task_pc = "update" /\ task_pc' = "send")
       /\ Notified(out') => (task_pc = "send" /\ task_pc' = "take")
       /\ (task_pc = "take" /\ task_pc' # "take")
          => (notify > 0 /\ notify' = 0)]_vars

\* the timer fired while a peer with notifications enabled is connected,
\* and the task has not run yet
C27_Witness ==
    /\ last.op = "timer" /\ notify = 1 /\ task_pc = "take"
    /\ m_connection_id # 0 /\ ~ConfigBitClear
    /\ tbl = [app_gatt_db_ext_attr_tbl EXCEPT ![BasConfigIndex].p_data = <<1, 0>>]
    /\ out = <<>>

\* C28: no request and no connection event is handled while a pass of the
\* notifier is between taking its signal and sending its notification.
C28_NoInterleaving ==
    [][(vars' # vars /\ taskVars' = taskVars) => task_pc = "take"]_vars

\* ------------------------------------------------------------ entry changes
\* the entries of t and u agree everywhere but at index i
SameBut(t, u, i) ==
    /\ Len(u) = Len(t)
    /\ \A k \in 1..Len(t) : k # i => u[k] = t[k]

\* C29 (as stated): an entry changes only as the effect of a write request
\* reaching ble_gatt_db_set_value; no other event changes the table.
C29_OnlyWritesChangeEntries ==
    [][tbl' # tbl => last'.op = "write"]_vars

\* C29 (amended): the entries are never added or removed, and their handle,
\* max_len and backing storage never change. The table changes only by a
\* successful write request, in the entry of the written handle, or by a
\* pass of the notifier, in the first data byte of the battery level; no other
\* event changes an entry.
C29_EntriesChangeByWriteOrTick ==
    [][/\ Len(tbl') = Len(tbl)
       /\ \A i \in 1..Len(tbl) :
             /\ tbl'[i].handle = tbl[i].handle
             /\ tbl'[i].max_len = tbl[i].max_len
             /\ tbl'[i].has_data = tbl[i].has_data
       /\ tbl' # tbl
          => \/ /\ last'.op = "write"
                /\ last'.status = WICED_BT_GATT_SUCCESS
                /\ IndexOf(last'.handle) # 0
                /\ SameBut(tbl, tbl', IndexOf(last'.handle))
             \/ /\ last'.op = "tick"
                /\ SameBut(tbl, tbl', BasIndex)
                /\ tbl'[BasIndex].cur_len = tbl[BasIndex].cur_len
                /\ tbl'[BasIndex].p_data[1] =
                      battery_service_update_percentage(
                          tbl[BasIndex].p_data[1], BATTERY_LEVEL_CHANGE)]_vars

\* the notifier took a level the peer had written from 4 to 2
C29_Witness ==
    /\ last.op = "tick" /\ Notified(out)
    /\ Level = 2

\* ------------------------------------------------------ order of the checks
\* the table with the backing storage of at most one entry missing
TablesWithout ==
    {tbl} \cup {[tbl EXCEPT ![i].has_data = FALSE] : i \in 1..Len(tbl)}

\* C30 (as stated): the error of ble_gatt_db_set_value is NotFound for an
\* unknown handle first, then LengthExceeded for a length above max_len, then
\* Internal for missing storage, whatever else holds of the call.
C30_HandleLengthStorageOrder ==
    \A t \in TablesWithout, wr \in WriteInputs :
        LET i == ble_gatt_db_find_by_handle(t, wr.handle)
            r == ble_gatt_db_set_value(t, wr.handle, wr.p_val, wr.val_len)
        IN r.status # WICED_BT_GATT_SUCCESS
           => r.status = (IF i = 0 THEN WICED_BT_GATT_INVALID_HANDLE
                          ELSE IF wr.val_len > t[i].max_len
                          THEN WICED_BT_GATT_INVALID_ATTR_LEN
                          ELSE WICED_BT_GATT_ERROR)

\* C30 (amended): a null byte source with a nonzero length is refused as an
\* invalid PDU before anything else; then an unknown handle gives NotFound,
\* then a length above max_len gives LengthExceeded, then missing storage
\* gives Internal; every other call succeeds, and a call with length 0 and a
\* null source to a known handle with storage sets cur_len to 0.
C30_SetValueErrorOrder ==
    \A t \in TablesWithout, wr \in WriteInputs :
        LET i == ble_gatt_db_find_by_handle(t, wr.handle)
            r == ble_gatt_db_set_value(t, wr.handle, wr.p_val, wr.val_len)
        IN /\ r.status =
                (IF wr.val_len > 0 /\ wr.p_val.null
                 THEN WICED_BT_GATT_INVALID_PDU
                 ELSE IF i = 0 THEN WICED_BT_GATT_INVALID_HANDLE
                 ELSE IF wr.val_len > t[i].max_len
                 THEN WICED_BT_GATT_INVALID_ATTR_LEN
                 ELSE IF ~t[i].has_data THEN WICED_BT_GATT_ERROR
                 ELSE WICED_BT_GATT_SUCCESS)
           /\ (wr.val_len = 0 /\ wr.p_val.null /\ i # 0 /\ t[i].has_data)
              => (r.status = WICED_BT_GATT_SUCCESS /\ r.tbl[i].cur_len = 0)

\* a write from a null source with a nonzero length to the battery level was
\* refused as an invalid PDU, and the level is as provisioned
C30_Witness ==
    /\ last.op = "write"
    /\ last.handle = HDLC_BAS_BATTERY_LEVEL_VALUE
    /\ last.status = WICED_BT_GATT_INVALID_PDU
    /\ tbl[BasIndex] = app_gatt_db_ext_attr_tbl[BasIndex]

\* ------------------------------------------------- descriptor of the session
OtaConfig ==
    HDLD_OTA_FW_UPGRADE_SERVICE_OTA_UPGRADE_CONTROL_POINT_CLIENT_CHAR_CONFIG

\* the engine calls that are given the configuration descriptor
DescriptorCalls == {"cy_ota_ble_download_prepare", "cy_ota_ble_download"}

\* C31: a write to the control-point client configuration stores its first
\* byte, returns success and calls no engine entry point, and the prepare or
\* download command that follows it passes the engine the byte just written.
C31_DescriptorPassedIsWritten ==
    [][/\ (last'.op = "write" /\ last'.handle = OtaConfig)
          => (last'.status = WICED_BT_GATT_SUCCESS /\ calls' = <<>>)
       /\ (last.op = "write" /\ last.handle = OtaConfig)
          => \A i \in 1..Len(calls') :
                calls'[i].fn \in DescriptorCalls
                => calls'[i].descriptor = ota.m_ota_config_descriptor]_vars

\* ------------------------------------------------------ order of read-by-type
\* the handles of the database in [s_handle, e_handle] that have the type
TypeMatches(s_handle, e_handle, uuid) ==
    {h \in DOMAIN gatt_database :
        s_handle <= h /\ h <= e_handle /\ gatt_database[h] = uuid}

\* the loop of the handler for a request, on the table t
LoopOf(t, rt) ==
    read_by_type_loop(t, rt.s_handle, rt.e_handle, rt.uuid, rt.len,
                      [data |-> <<>>, used |-> 0, pair_length |-> 0])

\* C32: for every reachable table and every range, also one that ends at the
\* largest 16-bit handle, the loop of read-by-type ends, and the pairs it
\* gathered are matching handles of the range in strictly ascending order
\* with no match skipped; the first match left out is one whose pair does
\* not fit what is left of the response (or has no entry in the table).
C32_ReadByTypeAscending ==
    \A rt \in ReadByTypeInputs :
        LET r == LoopOf(tbl, rt)
            n == Len(r.acc.data)
            hs == [i \in 1..n |-> r.acc.data[i][1]]
            matches == TypeMatches(rt.s_handle, rt.e_handle, rt.uuid)
            taken == {hs[i] : i \in 1..n}
            left == matches \ taken
        IN /\ \A i \in 1..n : \A j \in 1..n : i < j => hs[i] < hs[j]
           /\ taken \subseteq matches
           /\ \A h \in left : \A g \in taken : g < h
           /\ r.acc.used <= rt.len
           /\ left # {}
              => LET m == CHOOSE h \in left : \A g \in left : h <= g
                     a == ble_gatt_db_find_by_handle(tbl, m)
                 IN \/ a = 0 /\ r.exit = "lookup_failed"
                    \/ /\ a # 0 /\ r.exit = "break"
                       /\ wiced_bt_gatt_put_read_by_type_rsp_in_stream(
                              rt.len - r.acc.used, r.acc.pair_length,
                              tbl[a].cur_len).filled = 0
           /\ left = {} => r.exit = "break"

\* a read-by-type over a range that ends at the largest handle was answered
\* with both client configurations, in ascending order
C32_Witness ==
    /\ last.op = "read_by_type"
    /\ last.status = WICED_BT_GATT_SUCCESS
    /\ out # <<>> /\ out[1].kind = "read_by_type_rsp"
    /\ Len(out[1].data) = 2
    /\ out[1].data[1][1] = HDLD_BAS_BATTERY_LEVEL_CLIENT_CHAR_CONFIG
    /\ out[1].data[2][1] =
          HDLD_OTA_FW_UPGRADE_SERVICE_OTA_UPGRADE_CONTROL_POINT_CLIENT_CHAR_CONFIG

\* ------------------------------------------- allocation failure of the reads
\* C33 (as stated): a multi-attribute read whose response buffer could not be
\* allocated returns InsufficientResources.
C33_AllocFailureIsInsufResource ==
    (last.op \in {"read_by_type", "read_multi"} /\ last.buf = 0)
        => last.status = WICED_BT_GATT_INSUF_RESOURCE

\* C33 (amended): when std::malloc returns nullptr, read-by-type returns
\* InsufficientResources and read-multiple returns NotFound (invalid handle)
\* with the first handle of the stream as the offending handle; both hand
\* nothing to the transport, free nothing, and give the same result whatever
\* the table holds.
C33_AllocFailure ==
    /\ \A rt \in ReadByTypeInputs :
          LET r == ble_gatt_request_read_by_type_handler(
                       tbl, GATT_REQ_READ_BY_TYPE, 0, rt.s_handle, rt.e_handle,
                       rt.uuid, rt.len)
          IN /\ r.status = WICED_BT_GATT_INSUF_RESOURCE
             /\ r.out = <<>> /\ r.frees = <<>>
             /\ r = ble_gatt_request_read_by_type_handler(
                        app_gatt_db_ext_attr_tbl, GATT_REQ_READ_BY_TYPE, 0,
                        rt.s_handle, rt.e_handle, rt.uuid, rt.len)
    /\ \A rm \in ReadMultiInputs :
          LET h0 == IF rm.handles # <<>> THEN rm.handles[1] ELSE rm.handle0
              r == ble_gatt_request_read_multi_handler(
                       tbl, rm.opcode, 0, rm.handles, h0, rm.len)
          IN /\ r.status = WICED_BT_GATT_INVALID_HANDLE
             /\ r.error_handle = h0
             /\ r.out = <<>> /\ r.frees = <<>>
             /\ r = ble_gatt_request_read_multi_handler(
                        app_gatt_db_ext_attr_tbl, rm.opcode, 0, rm.handles, h0,
                        rm.len)

\* a read-multiple of the battery level found no memory for its response:
\* NotFound, and only the error response was sent
C33_Witness ==
    /\ last.op = "read_multi" /\ last.buf = 0
    /\ last.handle = HDLC_BAS_BATTERY_LEVEL_VALUE
    /\ last.status = WICED_BT_GATT_INVALID_HANDLE
    /\ Len(out) = 1 /\ out[1].kind = "error_rsp"
    /\ tbl # app_gatt_db_ext_attr_tbl

\* ------------------------------------------------------ unsupported requests
\* C34: a request with an opcode outside the routing table, and a write to
\* the control point whose command byte is none of the four commands, is
\* answered with UnsupportedOperation in an error response, never with
\* success.
C34_UnsupportedIsRefused ==
    (last.op = "unrouted"
        \/ (last.op = "write" /\ last.handle = ControlPoint
               /\ calls = <<>> /\ sys = "running"
               /\ ota.m_tag = "BLE_CONTEXT_TAG_VALID"))
    => /\ last.status = WICED_BT_GATT_REQ_NOT_SUPPORTED
       /\ \E i \in 1..Len(out) :
             out[i].kind = "error_rsp"
                /\ out[i].status = WICED_BT_GATT_REQ_NOT_SUPPORTED

\* ------------------------------------------------- state and connection id
\* C35: while the program runs, under any order of connect, disconnect and
\* advertising-mode-changed events, the connection state is connected if and
\* only if connection_id is nonzero.
C35_ConnectedIffConnectionId ==
    ~halted => (m_connection_state = connected <=> m_connection_id # 0)

\* C36: whenever the notifier task sends its notification, the connection id
\* it passes to the transport, read at that moment, is nonzero.
C36_NotificationHasConnection ==
    [][(task_pc = "send" /\ task_pc' = "take" /\ Notified(out'))
       => m_connection_id # 0]_vars

\* ------------------------------------------------------- one reply a request
\* the requests the protocol requires an answer to, by the name of the event
AnsweredOps ==
    {"read", "read_by_type", "read_multi", "write", "prepare_write",
     "execute_write", "mtu"}

\* C37: after a read, read-blob, read-by-type, read-multiple, confirmed
\* write, prepare-write, execute-write or MTU request was handled, exactly
\* one PDU went to the peer for it: its response or one error response.
C37_ExactlyOneReply ==
    (/\ last.op \in AnsweredOps
     /\ last.op = "write" => last.opcode = GATT_REQ_WRITE
     /\ sys = "running")
    => Len(out) = 1

\* ------------------------------------------------ failed writes to the store
\* C38: a call of ble_gatt_db_set_value that returns an error (unknown
\* handle, length above max_len, missing storage, null source with a nonzero
\* length) returns with every entry of the table as it was; each of the four
\* errors is among the calls looked at.
C38_FailedSetValueChangesNothing ==
    /\ \A t \in TablesWithout, wr \in WriteInputs :
          LET r == ble_gatt_db_set_value(t, wr.handle, wr.p_val, wr.val_len)
          IN r.status # WICED_BT_GATT_SUCCESS => r.tbl = t
    /\ \A e \in {WICED_BT_GATT_INVALID_HANDLE, WICED_BT_GATT_INVALID_ATTR_LEN,
                 WICED_BT_GATT_ERROR, WICED_BT_GATT_INVALID_PDU} :
          \E t \in TablesWithout, wr \in WriteInputs :
             ble_gatt_db_set_value(t, wr.handle, wr.p_val, wr.val_len).status
                = e

\* a write that is too long for the client configuration was refused after
\* an earlier write had shortened the entry, which is still as that write
\* left it
C38_Witness ==
    /\ last.op = "write"
    /\ last.handle = HDLD_BAS_BATTERY_LEVEL_CLIENT_CHAR_CONFIG
    /\ last.status = WICED_BT_GATT_INVALID_ATTR_LEN
    /\ tbl[BasConfigIndex].cur_len = 1

\* ------------------------------------------- confirmations without a session
\* C39: cy_ota_get_state and cy_ota_agent_stop are called only on the context
\* of a started engine (the call records whether m_ota_context was set): not
\* by a confirmation that comes before any prepare command, and not by a
\* second confirmation after the session was stopped.
C39_StateAndStopOnlyOnSession ==
    \A i \in 1..Len(calls) :
        calls[i].fn \in {"cy_ota_get_state", "cy_ota_agent_stop"}
        => (calls[i].ok /\ last.op = "value_confirmation")

\* --------------------------------------------- sessions and their connection
\* C40: once the disconnect event was handled, and until the first request
\* of the next connection, no update engine started during an earlier
\* connection is still active.
C40_SessionEndsWithConnection ==
    (~halted /\ (m_connection_id = 0 \/ last.op = "connect"))
        => (engines = 0 /\ ota.m_ota_context = 0)

====
